---- MODULE Spec2Model ----
(***************************************************************************)
(* The admin console page src/src/pages/AdminDashboard.tsx as a state      *)
(* machine: the session guard, the two cached lists and their fetches, the *)
(* realtime change listeners, the account and post dialogs, and the        *)
(* backend the page talks to (record store, identity service, realtime).   *)
(*                                                                         *)
(* Every backend call is a record of `calls`: the handler issues it        *)
(* (stage "sent"), the backend settles it (stage "answered", with the      *)
(* response), and the code after the `await` runs when it resolves (stage  *)
(* "done").  A call's index in `calls` is the order in which it was        *)
(* issued.  A handler's closure (the `users`, `editingUser`, ... of the    *)
(* render that created it) is stored in the call it awaits.                *)
(***************************************************************************)
EXTENDS Integers, Sequences, FiniteSets, TLC

VARIABLES
    now,              \* Date.now(), counted in half-seconds
    storage,          \* localStorage['adminSession']
    phase,            \* "init" (constructed), "mounted", "unmounted"
    route,            \* the router's location
    adminSession,     \* useState<AdminSession | null>
    users,            \* useState<User[]>
    blogs,            \* useState<Blog[]>
    editingBlog,      \* useState<Blog | null>
    editingUser,      \* useState<User | null>
    isCreateBlogOpen,
    isCreateUserOpen,
    newBlog,
    newUser,
    loading,
    usersChannel,     \* the 'admin-users-changes' channel: "none", "subscribed", "removed"
    blogsChannel,     \* the 'admin-blogs-changes' channel: "none", "subscribed", "removed"
    calls,            \* the backend calls issued so far, in order of issue
    timers,           \* pending setTimeout callbacks
    toast,            \* the notification raised last
    usersFrom,        \* history: the call whose response setUsers applied last (0: none)
    blogsFrom,        \* history: the call whose response setBlogs applied last (0: none)
    srvProfiles,      \* backend: rows of table 'profiles'
    srvBlogs,         \* backend: rows of table 'blogs'
    srvAuth,          \* backend: identities of the identity service
    srvTriggers,      \* backend: identities whose profile row the trigger has yet to insert
    profilesVer,      \* backend: number of changes made to 'profiles'
    blogsVer,         \* backend: number of changes made to 'blogs'
    remote,           \* number of changes other clients have made
    events            \* change notifications sent to this page and not yet delivered

vars == <<now, storage, phase, route, adminSession, users, blogs, editingBlog,
          editingUser, isCreateBlogOpen, isCreateUserOpen, newBlog, newUser,
          loading, usersChannel, blogsChannel, calls, timers, toast, usersFrom,
          blogsFrom, srvProfiles, srvBlogs, srvAuth, srvTriggers, profilesVer,
          blogsVer, remote, events>>

pageVars == <<adminSession, users, blogs, editingBlog, editingUser,
              isCreateBlogOpen, isCreateUserOpen, newBlog, newUser, loading>>
dialogVars == <<editingBlog, editingUser, isCreateBlogOpen, isCreateUserOpen,
                newBlog, newUser>>
cacheVars == <<users, blogs, usersFrom, blogsFrom>>
channelVars == <<usersChannel, blogsChannel>>
serverVars == <<srvProfiles, srvBlogs, srvAuth, srvTriggers, profilesVer, blogsVer,
                remote>>
envVars == <<now, storage, phase, route>>
sessionVars == <<adminSession, loading>>
userDialogVars == <<editingUser, isCreateUserOpen, newUser>>
blogDialogVars == <<editingBlog, isCreateBlogOpen, newBlog>>
usersCache == <<users, usersFrom>>
blogsCache == <<blogs, blogsFrom>>

----------------------------------------------------------------------------
(* Bounds of the model. *)

MaxCalls == 5      \* backend calls issued in one run
MaxFailures == 1   \* backend calls that fail in one run
MaxRemote == 1     \* changes made by other clients in one run
MaxTicks == 3      \* half-seconds the clock advances in one run
MaxUsers == 2      \* account identifiers
MaxBlogs == 2      \* post identifiers
MaxEdits == 1      \* updates of one collection submitted in one run
MaxDrafts == 1     \* forms holding a draft at once
MaxInFlight == 1   \* mutation handlers awaiting the backend at once

UserIds == 1..MaxUsers
BlogIds == 1..MaxBlogs

----------------------------------------------------------------------------
(* Time.  The code counts milliseconds; the model counts half-seconds, the *)
(* largest unit that divides every delay of the code (1000, 1500, 24 h,    *)
(* 30 d).                                                                  *)

HalfSeconds(ms) == ms \div 500

\* 24 * 60 * 60 * 1000 ms
SessionTTL == HalfSeconds(24 * 60 * 60 * 1000)

\* 30 * 24 * 60 * 60 * 1000 ms
ThirtyDays == 30 * HalfSeconds(24 * 60 * 60 * 1000)

----------------------------------------------------------------------------
(* Values. *)

\* localStorage['adminSession']: no item, an item JSON.parse throws on, or a
\* serialised AdminSession.
Absent == [kind |-> "absent", loginTime |-> 0]
Garbage == [kind |-> "garbage", loginTime |-> 0]
Token(t) == [kind |-> "json", loginTime |-> t]

NoSession == [kind |-> "null", loginTime |-> 0]

\* JSON.parse of a stored item that parses.
JSONparse(item) == [kind |-> "session", loginTime |-> item.loginTime]

\* subscription_end: null, the empty string of a cleared date input, an ISO
\* timestamp string, or the yyyy-mm-dd string of a date input.
NullEnd == [kind |-> "null", t |-> 0]
EmptyEnd == [kind |-> "empty", t |-> 0]
DateEnd(t) == [kind |-> "date", t |-> t]

\* new Date(t).toISOString()
toISOString(t) == [kind |-> "iso", t |-> t]

\* JavaScript truthiness of a subscription_end value.
Truthy(end) == end.kind \notin {"null", "empty"}

Profile(id, name, tier, end) ==
    [id |-> id, full_name |-> name, subscription_tier |-> tier,
     subscription_end |-> end, created_at |-> id]

NoUser == Profile(0, "", "free", NullEnd)

\* Text the code trims or slices is a sequence of characters.
Empty == <<>>
Blank == <<" ">>

\* The texts typed into the inputs the code trims.
Texts == {Empty, Blank, <<"a">>}

\* String.prototype.trim() over the blank character.
RECURSIVE trimStart(_)
trimStart(s) == IF s # <<>> /\ Head(s) = " " THEN trimStart(Tail(s)) ELSE s

RECURSIVE trimEnd(_)
trimEnd(s) == IF s # <<>> /\ s[Len(s)] = " " THEN trimEnd(SubSeq(s, 1, Len(s) - 1)) ELSE s

\* A validation that does not trim.
untrimmed(s) == s

trim(s) == trimEnd(trimStart(s))

Blog(id, title, content, excerpt, published) ==
    [id |-> id, title |-> title, content |-> content, excerpt |-> excerpt,
     published |-> published, created_at |-> id]

NoBlog == Blog(0, Empty, Empty, Empty, FALSE)

\* useState({ email: '', password: '', full_name: '', subscription_tier: 'free' })
BlankUser == [email |-> Empty, password |-> Empty, full_name |-> "", subscription_tier |-> "free"]

\* useState({ title: '', content: '', excerpt: '', published: false })
BlankBlog == [title |-> Empty, content |-> Empty, excerpt |-> Empty, published |-> FALSE]

NoToast == [kind |-> "none", msg |-> ""]
ErrorToast(msg) == [kind |-> "error", msg |-> msg]
SuccessToast(msg) == [kind |-> "success", msg |-> msg]

\* .order('created_at', { ascending: false })
RECURSIVE OrderDesc(_)
OrderDesc(rows) ==
    IF rows = {} THEN <<>>
    ELSE LET first == CHOOSE r \in rows : \A q \in rows : q.created_at <= r.created_at
         IN  <<first>> \o OrderDesc(rows \ {first})

\* A backend call as issued.  op: the request; by: what issued it; id: the
\* row or identity it is about; parent: the call whose continuation scheduled
\* it (0: none); at: Date.now() where the handler reads it; args: what the awaiting
\* handler holds in its closure; rows, ver: the response.
Call(op) ==
    [op |-> op, by |-> "handler", stage |-> "sent", outcome |-> "none",
     rows |-> <<>>, ver |-> 0, id |-> 0, parent |-> 0, at |-> 0, args |-> <<>>]

Live(c) == calls[c].stage # "done"
Sent(c, op) == c \in DOMAIN calls /\ calls[c].op = op /\ calls[c].stage = "sent"
Answered(c, op) == c \in DOMAIN calls /\ calls[c].op = op /\ calls[c].stage = "answered"
Failures == Cardinality({c \in DOMAIN calls : calls[c].outcome \in {"error", "throw"}})

\* The outcomes the backend may give a call.
Outcomes == IF Failures < MaxFailures THEN {"ok", "error", "throw"} ELSE {"ok"}

\* A call after its continuation has run: only what happened is kept.
Done(call) == [call EXCEPT !.stage = "done", !.rows = <<>>, !.args = <<>>]

Issued(op) == Cardinality({c \in DOMAIN calls : calls[c].op = op})
\* The mutation handlers that are awaiting the backend.
InFlight == Cardinality({c \in DOMAIN calls : Live(c) /\ calls[c].by = "handler"})

\* The forms that hold a draft, and whether the admin may start or go on
\* with the draft of a form.
Drafting ==
    (IF newUser # BlankUser THEN {"newUser"} ELSE {})
    \cup (IF newBlog # BlankBlog THEN {"newBlog"} ELSE {})
    \cup (IF editingUser # NoUser THEN {"editingUser"} ELSE {})
    \cup (IF editingBlog # NoBlog THEN {"editingBlog"} ELSE {})
MayDraft(form) == form \in Drafting \/ Cardinality(Drafting) < MaxDrafts
Mounted == phase = "mounted"

\* The page's buttons are rendered: mounted and not showing the loading screen.
Rendered == Mounted /\ ~loading

----------------------------------------------------------------------------
(* The state after construction. *)

LoginTimes == {0 - SessionTTL - 1, 0 - SessionTTL, 0 - 1}

InitialProfiles == {Profile(1, "ann", "free", NullEnd)}
InitialBlogs == {Blog(1, <<"T">>, <<"c">>, <<"e">>, FALSE)}

Init ==
    /\ now = 0
    /\ storage \in {Absent, Garbage} \cup {Token(t) : t \in LoginTimes}
    /\ phase = "init"
    /\ route = "/admin/dashboard"
    /\ adminSession = NoSession
    /\ users = <<>>
    /\ blogs = <<>>
    /\ editingBlog = NoBlog
    /\ editingUser = NoUser
    /\ isCreateBlogOpen = FALSE
    /\ isCreateUserOpen = FALSE
    /\ newBlog = BlankBlog
    /\ newUser = BlankUser
    /\ loading = TRUE
    /\ usersChannel = "none"
    /\ blogsChannel = "none"
    /\ calls = <<>>
    /\ timers = <<>>
    /\ toast = NoToast
    /\ usersFrom = 0
    /\ blogsFrom = 0
    /\ srvProfiles = InitialProfiles
    /\ srvBlogs = InitialBlogs
    /\ srvAuth = {1}
    /\ srvTriggers = {}
    /\ profilesVer = 0
    /\ blogsVer = 0
    /\ remote = 0
    /\ events = [users |-> 0, blogs |-> 0]

----------------------------------------------------------------------------
(* Session guard, listeners, page lifecycle. *)

\* navigate('/admin'): the router leaves the dashboard route, the page is
\* unmounted and the subscription effect's cleanup removes both channels.
\* A cleanup that leaves the channels subscribed.
keepChannel(channel) == channel

\* supabase.removeChannel(channel), in the subscription effect's cleanup
removeChannel(channel) == IF channel = "subscribed" THEN "removed" ELSE channel

LeavePage ==
    /\ phase' = "unmounted"
    /\ usersChannel' = removeChannel(usersChannel)
    /\ blogsChannel' = removeChannel(blogsChannel)
    /\ events' = [users |-> 0, blogs |-> 0]

Navigate == route' = "/admin" /\ LeavePage

\* fetchData up to its await: setLoading(true), then fetchUsers() and
\* fetchBlogs() each issue their select; Promise.all awaits both.
FetchDataCalls ==
    calls \o <<[Call("fetchUsers") EXCEPT !.by = "fetchData"],
               [Call("fetchBlogs") EXCEPT !.by = "fetchData"]>>

\* A guard that subtracts the wrong way round.
SessionExpiredReversed(parsedSession, dateNow) ==
    parsedSession.loginTime - dateNow > SessionTTL

\* A guard that also turns away a session of exactly 24 hours.
SessionExpiredAtBoundary(parsedSession, dateNow) ==
    dateNow - parsedSession.loginTime >= SessionTTL

\* Date.now() - parsedSession.loginTime > 24 * 60 * 60 * 1000
SessionExpired(parsedSession, dateNow) == dateNow - parsedSession.loginTime > SessionTTL

\* The first effect, run once on mount.
SessionCheck ==
    /\ phase = "init"
    /\ UNCHANGED <<now, users, blogs, dialogVars, usersFrom, blogsFrom, timers,
                   toast, serverVars>>
    /\ IF storage.kind = "absent"
       THEN /\ Navigate
            /\ UNCHANGED <<storage, adminSession, loading, calls>>
       ELSE IF storage.kind = "garbage"
       THEN \* JSON.parse throws: the catch block
            /\ storage' = Absent
            /\ Navigate
            /\ UNCHANGED <<adminSession, loading, calls>>
       ELSE IF SessionExpired(JSONparse(storage), now)
       THEN /\ storage' = Absent
            /\ Navigate
            /\ UNCHANGED <<adminSession, loading, calls>>
       ELSE /\ adminSession' = JSONparse(storage)
            /\ loading' = TRUE
            /\ calls' = FetchDataCalls
            /\ phase' = "mounted"
            /\ UNCHANGED <<storage, route, channelVars, events>>

\* The second effect, run after the render in which adminSession is set.
SubscribeEffect ==
    /\ Mounted
    /\ adminSession # NoSession
    /\ usersChannel = "none" /\ blogsChannel = "none"
    /\ usersChannel' = "subscribed"
    /\ blogsChannel' = "subscribed"
    /\ UNCHANGED <<envVars, pageVars, calls, timers, toast, usersFrom, blogsFrom,
                   serverVars, events>>

\* The page is unmounted (the admin leaves by other means); the cleanup of
\* the subscription effect runs.
Unmount ==
    /\ Mounted
    /\ LeavePage
    /\ UNCHANGED <<now, storage, route, pageVars, calls, timers, toast,
                   usersFrom, blogsFrom, serverVars>>

handleSignOut ==
    /\ Rendered
    /\ storage' = Absent
    /\ Navigate
    /\ UNCHANGED <<now, pageVars, calls, timers, toast, usersFrom, blogsFrom,
                   serverVars>>

\* Time passes.
Tick ==
    /\ now < MaxTicks
    /\ now' = now + 1
    /\ UNCHANGED <<storage, phase, route, pageVars, channelVars, calls, timers,
                   toast, usersFrom, blogsFrom, serverVars, events>>

----------------------------------------------------------------------------
(* Fetches. *)

\* The Refresh button: onClick={fetchData}.
Refresh ==
    /\ Rendered
    /\ Len(calls) + 2 <= MaxCalls
    /\ loading' = TRUE
    /\ calls' = FetchDataCalls
    /\ UNCHANGED <<envVars, adminSession, users, blogs, dialogVars, channelVars,
                   timers, toast, usersFrom, blogsFrom, serverVars, events>>

\* The backend settles a select on 'profiles'.
AnswerFetchUsers(c) ==
    /\ Sent(c, "fetchUsers")
    /\ \E o \in Outcomes :
         calls' = [calls EXCEPT ![c] =
                     [@ EXCEPT !.stage = "answered", !.outcome = o,
                               !.rows = IF o = "ok" THEN OrderDesc(srvProfiles) ELSE <<>>,
                               !.ver = profilesVer]]
    /\ UNCHANGED <<envVars, pageVars, channelVars, timers, toast, usersFrom,
                   blogsFrom, serverVars, events>>

\* The backend settles a select on 'blogs'.
AnswerFetchBlogs(c) ==
    /\ Sent(c, "fetchBlogs")
    /\ \E o \in Outcomes :
         calls' = [calls EXCEPT ![c] =
                     [@ EXCEPT !.stage = "answered", !.outcome = o,
                               !.rows = IF o = "ok" THEN OrderDesc(srvBlogs) ELSE <<>>,
                               !.ver = blogsVer]]
    /\ UNCHANGED <<envVars, pageVars, channelVars, timers, toast, usersFrom,
                   blogsFrom, serverVars, events>>

\* fetchData's finally block runs once both fetches of its Promise.all have
\* settled: this one, c, is the last of them.
LastOfAll(c) ==
    /\ calls[c].by = "fetchData"
    /\ \A d \in DOMAIN calls : (d # c /\ calls[d].by = "fetchData") => ~Live(d)

\* A fetchData that clears the loading flag only when its last fetch succeeded.
LoadingAfterSuccess(c) ==
    IF Mounted /\ LastOfAll(c) /\ calls[c].outcome = "ok" THEN FALSE ELSE loading

LoadingAfter(c) == IF Mounted /\ LastOfAll(c) THEN FALSE ELSE loading

\* A fetch that merges the response into the cached list.
UsersAfterFetchMerged(c) ==
    IF calls[c].outcome = "ok"
    THEN calls[c].rows \o SelectSeq(users, LAMBDA u : \A i \in DOMAIN calls[c].rows :
                                                       calls[c].rows[i].id # u.id)
    ELSE users

\* A fetch that drops the response of a call issued before the one applied last.
UsersAfterFetchNewest(c) ==
    IF calls[c].outcome = "ok" /\ c > usersFrom THEN calls[c].rows ELSE users

\* A fetch that clears the cached list when the backend fails.
UsersAfterFetchCleared(c) == IF calls[c].outcome = "ok" THEN calls[c].rows ELSE <<>>

\* fetchUsers: setUsers(data || []) on success, an early return or the catch
\* block otherwise.
UsersAfterFetch(c) == IF calls[c].outcome = "ok" THEN calls[c].rows ELSE users

\* fetchBlogs: setBlogs(data || []) on success, an early return or the catch
\* block otherwise.
BlogsAfterFetch(c) == IF calls[c].outcome = "ok" THEN calls[c].rows ELSE blogs

\* fetchUsers after its await.
ResolveFetchUsers(c) ==
    /\ Answered(c, "fetchUsers")
    /\ calls' = [calls EXCEPT ![c] = Done(@)]
    /\ loading' = LoadingAfter(c)
    /\ IF calls[c].outcome = "ok"
       THEN /\ users' = IF Mounted THEN UsersAfterFetch(c) ELSE users
            /\ usersFrom' = IF Mounted THEN c ELSE usersFrom
            /\ UNCHANGED toast
       ELSE /\ toast' = ErrorToast(IF calls[c].outcome = "error"
                                   THEN "Failed to fetch users: message"
                                   ELSE "Failed to fetch users")
            /\ users' = IF Mounted THEN UsersAfterFetch(c) ELSE users
            /\ UNCHANGED usersFrom
    /\ UNCHANGED <<envVars, adminSession, blogs, blogsFrom, dialogVars,
                   channelVars, timers, serverVars, events>>

\* fetchBlogs after its await.
ResolveFetchBlogs(c) ==
    /\ Answered(c, "fetchBlogs")
    /\ calls' = [calls EXCEPT ![c] = Done(@)]
    /\ loading' = LoadingAfter(c)
    /\ IF calls[c].outcome = "ok"
       THEN /\ blogs' = IF Mounted THEN BlogsAfterFetch(c) ELSE blogs
            /\ blogsFrom' = IF Mounted THEN c ELSE blogsFrom
            /\ UNCHANGED toast
       ELSE /\ toast' = ErrorToast(IF calls[c].outcome = "error"
                                   THEN "Failed to fetch blogs: message"
                                   ELSE "Failed to fetch blogs")
            /\ blogs' = IF Mounted THEN BlogsAfterFetch(c) ELSE blogs
            /\ UNCHANGED blogsFrom
    /\ UNCHANGED <<envVars, adminSession, users, usersFrom, dialogVars,
                   channelVars, timers, serverVars, events>>

----------------------------------------------------------------------------
(* Realtime: changes made by other clients, and the listeners' callbacks. *)

\* The backend notifies the page's channel of a change, if it is subscribed.
NotifyUsers == [events EXCEPT !.users = IF usersChannel = "subscribed" THEN @ + 1 ELSE @]
NotifyBlogs == [events EXCEPT !.blogs = IF blogsChannel = "subscribed" THEN @ + 1 ELSE @]

\* Another client inserts, updates or deletes a row of 'profiles'.
RemoteChangeUsers ==
    /\ Mounted
    /\ remote < MaxRemote
    /\ \/ \E id \in UserIds :
            /\ \A r \in srvProfiles : r.id # id
            /\ srvProfiles' = srvProfiles \cup {Profile(id, "bob", "free", NullEnd)}
       \/ \E r \in srvProfiles :
            srvProfiles' = (srvProfiles \ {r}) \cup
                {IF r.subscription_tier = "free"
                 THEN [r EXCEPT !.subscription_tier = "premium",
                                !.subscription_end = toISOString(ThirtyDays)]
                 ELSE [r EXCEPT !.subscription_tier = "free",
                                !.subscription_end = NullEnd]}
       \/ \E r \in srvProfiles : srvProfiles' = srvProfiles \ {r}
    /\ remote' = remote + 1
    /\ profilesVer' = profilesVer + 1
    /\ events' = NotifyUsers
    /\ UNCHANGED <<envVars, pageVars, channelVars, calls, timers, toast,
                   usersFrom, blogsFrom, srvBlogs, srvAuth, srvTriggers, blogsVer>>

\* Another client inserts, updates or deletes a row of 'blogs'.
RemoteChangeBlogs ==
    /\ Mounted
    /\ remote < MaxRemote
    /\ \/ \E id \in BlogIds :
            /\ \A r \in srvBlogs : r.id # id
            /\ srvBlogs' = srvBlogs \cup {Blog(id, <<"U">>, <<"d">>, <<"d", ".", ".", ".">>, TRUE)}
       \/ \E r \in srvBlogs :
            srvBlogs' = (srvBlogs \ {r}) \cup {[r EXCEPT !.published = ~@]}
       \/ \E r \in srvBlogs : srvBlogs' = srvBlogs \ {r}
    /\ remote' = remote + 1
    /\ blogsVer' = blogsVer + 1
    /\ events' = NotifyBlogs
    /\ UNCHANGED <<envVars, pageVars, channelVars, calls, timers, toast,
                   usersFrom, blogsFrom, srvProfiles, srvAuth, srvTriggers, profilesVer>>

\* A posts callback that re-fetches both collections.
BlogsListenerFetchesAll ==
    <<[Call("fetchBlogs") EXCEPT !.by = "listener"],
      [Call("fetchUsers") EXCEPT !.by = "listener"]>>

\* What the callback of a channel sends: the select of its own table.
UsersListenerFetches == <<[Call("fetchUsers") EXCEPT !.by = "listener"]>>
BlogsListenerFetches == <<[Call("fetchBlogs") EXCEPT !.by = "listener"]>>

\* The callback of 'admin-users-changes': fetchUsers().
UsersChanged ==
    /\ usersChannel = "subscribed"
    /\ events.users > 0
    /\ Len(calls) < MaxCalls
    /\ events' = [events EXCEPT !.users = @ - 1]
    /\ calls' = calls \o UsersListenerFetches
    /\ UNCHANGED <<envVars, pageVars, channelVars, timers, toast, usersFrom,
                   blogsFrom, serverVars>>

\* The callback of 'admin-blogs-changes': fetchBlogs().
BlogsChanged ==
    /\ blogsChannel = "subscribed"
    /\ events.blogs > 0
    /\ Len(calls) < MaxCalls
    /\ events' = [events EXCEPT !.blogs = @ - 1]
    /\ calls' = calls \o BlogsListenerFetches
    /\ UNCHANGED <<envVars, pageVars, channelVars, timers, toast, usersFrom,
                   blogsFrom, serverVars>>

----------------------------------------------------------------------------
(* Account edit. *)

\* The edit button of a row: setEditingUser(user).
OpenEditUser ==
    /\ Rendered
    /\ MayDraft("editingUser")
    /\ \E i \in DOMAIN users : editingUser' = users[i]
    /\ UNCHANGED <<envVars, channelVars, sessionVars, usersCache, blogsCache,
                   isCreateUserOpen, newUser, blogDialogVars, calls, timers,
                   toast, serverVars, events>>

\* The date the admin picks in the edit dialog's date input.
PickedDate == 7 * SessionTTL

\* The inputs of the edit dialog: full name, tier, subscription end date.
ChangeEditUser ==
    /\ Rendered
    /\ editingUser # NoUser
    /\ \/ editingUser' = [editingUser EXCEPT !.full_name = "amy"]
       \/ \E tier \in {"free", "premium"} :
            editingUser' = [editingUser EXCEPT !.subscription_tier = tier]
       \/ \E end \in {EmptyEnd, DateEnd(PickedDate)} :
            editingUser' = [editingUser EXCEPT !.subscription_end = end]
    /\ UNCHANGED <<envVars, channelVars, sessionVars, usersCache, blogsCache,
                   isCreateUserOpen, newUser, blogDialogVars, calls, timers,
                   toast, serverVars, events>>

\* Cancel, or the dialog's onOpenChange: setEditingUser(null).
CloseEditUser ==
    /\ Rendered
    /\ editingUser # NoUser
    /\ editingUser' = NoUser
    /\ UNCHANGED <<envVars, channelVars, sessionVars, usersCache, blogsCache,
                   isCreateUserOpen, newUser, blogDialogVars, calls, timers,
                   toast, serverVars, events>>

\* An edit that gives every premium account a fresh 30 days.
SubscriptionEndRenewed(draft, dateNow) ==
    IF draft.subscription_tier = "premium"
    THEN toISOString(dateNow + ThirtyDays)
    ELSE NullEnd

\* updateUser: const subscriptionEnd = ...
SubscriptionEnd(draft, dateNow) ==
    IF draft.subscription_tier = "premium"
    THEN IF Truthy(draft.subscription_end)
         THEN draft.subscription_end
         ELSE toISOString(dateNow + ThirtyDays)
    ELSE NullEnd

\* updateUser up to its await: the update of 'profiles' is sent; the handler
\* holds the editingUser and users of the render that created it.
updateUser ==
    /\ Rendered
    /\ editingUser # NoUser
    /\ Len(calls) < MaxCalls
    /\ Issued("updateUser") < MaxEdits
    /\ InFlight < MaxInFlight
    /\ calls' = Append(calls,
          [Call("updateUser") EXCEPT
              !.id = editingUser.id,
              !.at = now,
              !.args = [editingUser |-> editingUser,
                        users |-> users,
                        subscriptionEnd |-> SubscriptionEnd(editingUser, now)]])
    /\ UNCHANGED <<envVars, channelVars, pageVars, usersFrom, blogsFrom, timers,
                   toast, serverVars, events>>

\* What the column 'subscription_end' (a timestamp) stores for a value sent.
StoredEnd(end) == IF end.kind = "date" THEN toISOString(end.t) ELSE end

\* The backend settles .update({full_name, subscription_tier,
\* subscription_end}).eq('id', id) on 'profiles'.
AnswerUpdateUser(c) ==
    /\ Sent(c, "updateUser")
    /\ \E o \in Outcomes :
         LET hit == {r \in srvProfiles : r.id = calls[c].id}
             draft == calls[c].args.editingUser
             patched == {[r EXCEPT !.full_name = draft.full_name,
                                   !.subscription_tier = draft.subscription_tier,
                                   !.subscription_end = StoredEnd(calls[c].args.subscriptionEnd)]
                         : r \in hit}
             changed == o = "ok" /\ hit # {}
         IN  /\ calls' = [calls EXCEPT ![c] = [@ EXCEPT !.stage = "answered", !.outcome = o]]
             /\ srvProfiles' = IF changed THEN (srvProfiles \ hit) \cup patched ELSE srvProfiles
             /\ profilesVer' = IF changed THEN profilesVer + 1 ELSE profilesVer
             /\ events' = IF changed THEN NotifyUsers ELSE events
    /\ UNCHANGED <<envVars, channelVars, pageVars, usersFrom, blogsFrom, timers,
                   toast, srvBlogs, srvAuth, srvTriggers, blogsVer, remote>>

\* setUsers(users.map(user => user.id === editingUser.id
\*     ? { ...editingUser, subscription_end: subscriptionEnd } : user)),
\* with the users and editingUser of the handler's closure.
UsersAfterUpdate(c) ==
    [i \in DOMAIN calls[c].args.users |->
        IF calls[c].args.users[i].id = calls[c].args.editingUser.id
        THEN [calls[c].args.editingUser EXCEPT
                 !.subscription_end = calls[c].args.subscriptionEnd]
        ELSE calls[c].args.users[i]]

\* updateUser after its await.
ResolveUpdateUser(c) ==
    /\ Answered(c, "updateUser")
    /\ calls' = [calls EXCEPT ![c] = Done(@)]
    /\ IF calls[c].outcome = "ok"
       THEN /\ users' = IF Mounted THEN UsersAfterUpdate(c) ELSE users
            /\ usersFrom' = IF Mounted THEN c ELSE usersFrom
            /\ editingUser' = IF Mounted THEN NoUser ELSE editingUser
            /\ toast' = SuccessToast("User updated successfully")
       ELSE /\ toast' = ErrorToast(IF calls[c].outcome = "error"
                                   THEN "Failed to update user: message"
                                   ELSE "Failed to update user")
            /\ UNCHANGED <<users, usersFrom, editingUser>>
    /\ UNCHANGED <<envVars, channelVars, sessionVars, blogsCache, isCreateUserOpen,
                   newUser, blogDialogVars, timers, serverVars, events>>

----------------------------------------------------------------------------
(* Account delete. *)

\* deleteUser up to its first await: confirm(), then the delete of the
\* profile row is sent.
deleteUser ==
    /\ Rendered
    /\ Len(calls) + 2 <= MaxCalls
    /\ InFlight < MaxInFlight
    /\ \E i \in DOMAIN users, confirmed \in BOOLEAN :
         calls' = IF confirmed
                  THEN Append(calls, [Call("deleteProfile") EXCEPT
                                         !.id = users[i].id,
                                         !.args = [users |-> users]])
                  ELSE calls
    /\ UNCHANGED <<envVars, channelVars, pageVars, usersFrom, blogsFrom, timers,
                   toast, serverVars, events>>

\* The backend settles .delete().eq('id', id) on 'profiles'.
AnswerDeleteProfile(c) ==
    /\ Sent(c, "deleteProfile")
    /\ \E o \in Outcomes :
         LET hit == {r \in srvProfiles : r.id = calls[c].id}
             changed == o = "ok" /\ hit # {}
         IN  /\ calls' = [calls EXCEPT ![c] = [@ EXCEPT !.stage = "answered", !.outcome = o]]
             /\ srvProfiles' = IF changed THEN srvProfiles \ hit ELSE srvProfiles
             /\ profilesVer' = IF changed THEN profilesVer + 1 ELSE profilesVer
             /\ events' = IF changed THEN NotifyUsers ELSE events
    /\ UNCHANGED <<envVars, channelVars, pageVars, usersFrom, blogsFrom, timers,
                   toast, srvBlogs, srvAuth, srvTriggers, blogsVer, remote>>

\* A delete that goes on to the identity service whatever the profile delete
\* returned.
AfterDeleteProfileAlways(c) ==
    Append([calls EXCEPT ![c] = Done(@)],
           [Call("deleteIdentity") EXCEPT !.id = calls[c].id, !.parent = c,
                                          !.args = calls[c].args])

\* deleteUser after its first await: on an error it returns, otherwise it
\* calls supabase.auth.admin.deleteUser(id).
AfterDeleteProfile(c) ==
    IF calls[c].outcome = "ok"
    THEN Append([calls EXCEPT ![c] = Done(@)],
                [Call("deleteIdentity") EXCEPT !.id = calls[c].id, !.parent = c,
                                               !.args = calls[c].args])
    ELSE [calls EXCEPT ![c] = Done(@)]

ResolveDeleteProfile(c) ==
    /\ Answered(c, "deleteProfile")
    /\ calls' = AfterDeleteProfile(c)
    /\ toast' = IF calls[c].outcome = "ok" THEN toast
                ELSE ErrorToast(IF calls[c].outcome = "error"
                                THEN "Failed to delete user profile: message"
                                ELSE "Failed to delete user")
    /\ UNCHANGED <<envVars, channelVars, pageVars, usersFrom, blogsFrom, timers,
                   serverVars, events>>

\* The identity service settles auth.admin.deleteUser(id).
AnswerDeleteIdentity(c) ==
    /\ Sent(c, "deleteIdentity")
    /\ \E o \in Outcomes :
         /\ calls' = [calls EXCEPT ![c] = [@ EXCEPT !.stage = "answered", !.outcome = o]]
         /\ srvAuth' = IF o = "ok" THEN srvAuth \ {calls[c].id} ELSE srvAuth
    /\ UNCHANGED <<envVars, channelVars, pageVars, usersFrom, blogsFrom, timers,
                   toast, srvProfiles, srvBlogs, profilesVer, blogsVer, remote, srvTriggers,
                   events>>

\* A delete that keeps the cached record when the identity service failed.
UsersAfterDeleteIfIdentityGone(c) ==
    IF calls[c].outcome = "ok"
    THEN SelectSeq(calls[c].args.users, LAMBDA user : user.id # calls[c].id)
    ELSE users

\* setUsers(users.filter(user => user.id !== id)), with the users of the
\* handler's closure; it runs whether auth.admin.deleteUser succeeded,
\* returned an error or threw into the inner catch.
UsersAfterDelete(c) ==
    SelectSeq(calls[c].args.users, LAMBDA user : user.id # calls[c].id)

\* deleteUser after its second await.
ResolveDeleteIdentity(c) ==
    /\ Answered(c, "deleteIdentity")
    /\ calls' = [calls EXCEPT ![c] = Done(@)]
    /\ users' = IF Mounted THEN UsersAfterDelete(c) ELSE users
    /\ usersFrom' = IF Mounted THEN c ELSE usersFrom
    /\ toast' = SuccessToast("User deleted successfully")
    /\ UNCHANGED <<envVars, channelVars, sessionVars, blogsCache, userDialogVars,
                   blogDialogVars, timers, serverVars, events>>

----------------------------------------------------------------------------
(* Account create. *)

\* The 'Add User' button: setIsCreateUserOpen(true).
OpenCreateUser ==
    /\ Rendered
    /\ ~isCreateUserOpen
    /\ isCreateUserOpen' = TRUE
    /\ UNCHANGED <<envVars, channelVars, sessionVars, usersCache, blogsCache,
                   editingUser, newUser, blogDialogVars, calls, timers, toast,
                   serverVars, events>>

\* Cancel, or the dialog's onOpenChange: setIsCreateUserOpen(false); the
\* draft stays.
CloseCreateUser ==
    /\ Rendered
    /\ isCreateUserOpen
    /\ isCreateUserOpen' = FALSE
    /\ UNCHANGED <<envVars, channelVars, sessionVars, usersCache, blogsCache,
                   editingUser, newUser, blogDialogVars, calls, timers, toast,
                   serverVars, events>>

\* The inputs of the create dialog the validation reads: email, password.
ChangeNewUserLogin ==
    /\ Rendered
    /\ MayDraft("newUser")
    /\ isCreateUserOpen
    /\ \/ \E text \in Texts : newUser' = [newUser EXCEPT !.email = text]
       \/ \E text \in Texts : newUser' = [newUser EXCEPT !.password = text]
    /\ UNCHANGED <<envVars, channelVars, sessionVars, usersCache, blogsCache,
                   editingUser, isCreateUserOpen, blogDialogVars, calls, timers,
                   toast, serverVars, events>>

\* The other inputs of the create dialog: full name, tier.
ChangeNewUserProfile ==
    /\ Rendered
    /\ MayDraft("newUser")
    /\ isCreateUserOpen
    /\ \/ newUser' = [newUser EXCEPT !.full_name = "bob"]
       \/ \E tier \in {"free", "premium"} :
            newUser' = [newUser EXCEPT !.subscription_tier = tier]
    /\ UNCHANGED <<envVars, channelVars, sessionVars, usersCache, blogsCache,
                   editingUser, isCreateUserOpen, blogDialogVars, calls, timers,
                   toast, serverVars, events>>

\* if (!newUser.email.trim() || !newUser.password.trim())
InvalidNewUser(draft) == trim(draft.email) = Empty \/ trim(draft.password) = Empty

\* createUser up to its await: the validation, then supabase.auth.signUp.
\* The calls the handler and its timers go on to make are counted here.
createUser ==
    /\ Rendered
    /\ isCreateUserOpen
    /\ IF InvalidNewUser(newUser)
       THEN /\ toast' = ErrorToast("Please fill in email and password")
            /\ UNCHANGED calls
       ELSE /\ Len(calls) + 3 <= MaxCalls
            /\ InFlight < MaxInFlight
            /\ calls' = Append(calls, [Call("signUp") EXCEPT !.args = [newUser |-> newUser]])
            /\ UNCHANGED toast
    /\ UNCHANGED <<envVars, channelVars, pageVars, usersFrom, blogsFrom, timers,
                   serverVars, events>>

\* The identifiers the backend has not given to an account.
FreeUserIds == (UserIds \ srvAuth) \ {r.id : r \in srvProfiles}

\* The identity service settles signUp: on success it creates the identity,
\* whose profile row a database trigger inserts afterwards.
AnswerSignUp(c) ==
    /\ Sent(c, "signUp")
    /\ \E o \in Outcomes :
         IF o = "ok"
         THEN /\ FreeUserIds # {}
              /\ LET id == CHOOSE i \in FreeUserIds : \A j \in FreeUserIds : i <= j
                 IN  /\ calls' = [calls EXCEPT ![c] = [@ EXCEPT !.stage = "answered",
                                                              !.outcome = o, !.id = id]]
                     /\ srvAuth' = srvAuth \cup {id}
                     /\ srvTriggers' = srvTriggers \cup
                            {[id |-> id, full_name |-> calls[c].args.newUser.full_name]}
         ELSE /\ calls' = [calls EXCEPT ![c] = [@ EXCEPT !.stage = "answered", !.outcome = o]]
              /\ UNCHANGED <<srvAuth, srvTriggers>>
    /\ UNCHANGED <<envVars, channelVars, pageVars, usersFrom, blogsFrom, timers,
                   toast, srvProfiles, srvBlogs, profilesVer, blogsVer, remote,
                   events>>

\* The trigger on the identity table inserts the profile row of a new
\* identity ("the profile will be created automatically by the trigger").
ProfileTrigger ==
    /\ \E t \in srvTriggers :
         /\ srvTriggers' = srvTriggers \ {t}
         /\ srvProfiles' = srvProfiles \cup {Profile(t.id, t.full_name, "free", NullEnd)}
    /\ profilesVer' = profilesVer + 1
    /\ events' = NotifyUsers
    /\ UNCHANGED <<envVars, channelVars, pageVars, usersFrom, blogsFrom, calls,
                   timers, toast, srvBlogs, srvAuth, blogsVer, remote>>

\* setTimeout(..., 1000) and setTimeout(fetchUsers, 1500), in half-seconds.
SettlingDelay == HalfSeconds(1000)
RefetchDelay == HalfSeconds(1500)

Timer(kind, due, parent) ==
    [kind |-> kind, due |-> due, parent |-> parent, id |-> 0, subscriptionEnd |-> NullEnd]

\* The timers createUser registers once signUp has returned a user: the
\* subscription update if premium was selected, then the re-fetch.
TimersAfterSignUp(c) ==
    (IF calls[c].args.newUser.subscription_tier = "premium"
     THEN <<[Timer("setPremium", now + SettlingDelay, c) EXCEPT
                !.id = calls[c].id,
                !.subscriptionEnd = toISOString(now + ThirtyDays)]>>
     ELSE <<>>)
    \o <<Timer("fetchUsers", now + RefetchDelay, c)>>

\* createUser after its await.
ResolveSignUp(c) ==
    /\ Answered(c, "signUp")
    /\ calls' = [calls EXCEPT ![c] = Done(@)]
    /\ IF calls[c].outcome = "ok"
       THEN /\ timers' = timers \o TimersAfterSignUp(c)
            /\ newUser' = IF Mounted THEN BlankUser ELSE newUser
            /\ isCreateUserOpen' = IF Mounted THEN FALSE ELSE isCreateUserOpen
            /\ toast' = SuccessToast("User created successfully! They will receive a confirmation email.")
       ELSE /\ toast' = ErrorToast(IF calls[c].outcome = "error"
                                   THEN "Failed to create user: message"
                                   ELSE "Failed to create user")
            /\ UNCHANGED <<timers, newUser, isCreateUserOpen>>
    /\ UNCHANGED <<envVars, channelVars, sessionVars, usersCache, blogsCache,
                   editingUser, blogDialogVars, serverVars, events>>

\* A timer loop that runs the timer registered last.
LastTimer == Len(timers)

\* The timer the event loop runs next: the one due first, and of those due
\* together the one registered first.
NextTimer ==
    CHOOSE i \in DOMAIN timers :
        \A j \in DOMAIN timers :
            timers[i].due < timers[j].due \/ (timers[i].due = timers[j].due /\ i <= j)

\* The call a timer's callback sends: the subscription update of the new
\* profile, or fetchUsers.
TimerCall(timer) ==
    IF timer.kind = "setPremium"
    THEN [Call("setPremium") EXCEPT !.by = "timer", !.id = timer.id, !.parent = timer.parent,
                                    !.args = [subscriptionEnd |-> timer.subscriptionEnd]]
    ELSE [Call("fetchUsers") EXCEPT !.by = "timer", !.parent = timer.parent]

\* A timer that is due runs.
FireTimer ==
    /\ timers # <<>>
    /\ timers[NextTimer].due <= now
    /\ Len(calls) < MaxCalls
    /\ calls' = Append(calls, TimerCall(timers[NextTimer]))
    /\ timers' = [i \in 1..(Len(timers) - 1) |->
                    IF i < NextTimer THEN timers[i] ELSE timers[i + 1]]
    /\ UNCHANGED <<envVars, channelVars, pageVars, usersFrom, blogsFrom, toast,
                   serverVars, events>>

\* The backend settles .update({subscription_tier: 'premium',
\* subscription_end}).eq('id', authData.user.id) on 'profiles'.
AnswerSetPremium(c) ==
    /\ Sent(c, "setPremium")
    /\ \E o \in Outcomes :
         LET hit == {r \in srvProfiles : r.id = calls[c].id}
             patched == {[r EXCEPT !.subscription_tier = "premium",
                                   !.subscription_end = calls[c].args.subscriptionEnd]
                         : r \in hit}
             changed == o = "ok" /\ hit # {}
         IN  /\ calls' = [calls EXCEPT ![c] = [@ EXCEPT !.stage = "answered", !.outcome = o]]
             /\ srvProfiles' = IF changed THEN (srvProfiles \ hit) \cup patched ELSE srvProfiles
             /\ profilesVer' = IF changed THEN profilesVer + 1 ELSE profilesVer
             /\ events' = IF changed THEN NotifyUsers ELSE events
    /\ UNCHANGED <<envVars, channelVars, pageVars, usersFrom, blogsFrom, timers,
                   toast, srvBlogs, srvAuth, srvTriggers, blogsVer, remote>>

\* The timer's callback after its await: an error is notified, a thrown
\* failure is an unhandled rejection.
ResolveSetPremium(c) ==
    /\ Answered(c, "setPremium")
    /\ calls' = [calls EXCEPT ![c] = Done(@)]
    /\ toast' = IF calls[c].outcome = "error"
                THEN ErrorToast("User created but subscription update failed: message")
                ELSE toast
    /\ UNCHANGED <<envVars, channelVars, pageVars, usersFrom, blogsFrom, timers,
                   serverVars, events>>

----------------------------------------------------------------------------
(* Post create and post edit. *)

\* The 'Add Blog' button: setIsCreateBlogOpen(true).
OpenCreateBlog ==
    /\ Rendered
    /\ ~isCreateBlogOpen
    /\ isCreateBlogOpen' = TRUE
    /\ UNCHANGED <<envVars, channelVars, sessionVars, usersCache, blogsCache,
                   userDialogVars, editingBlog, newBlog, calls, timers, toast,
                   serverVars, events>>

\* Cancel, or the dialog's onOpenChange: setIsCreateBlogOpen(false); the
\* draft stays.
CloseCreateBlog ==
    /\ Rendered
    /\ isCreateBlogOpen
    /\ isCreateBlogOpen' = FALSE
    /\ UNCHANGED <<envVars, channelVars, sessionVars, usersCache, blogsCache,
                   userDialogVars, editingBlog, newBlog, calls, timers, toast,
                   serverVars, events>>

\* The inputs of a post dialog the validation reads: title, content.
ChangedBlog(draft) ==
    {[draft EXCEPT !.title = text] : text \in Texts}
    \cup {[draft EXCEPT !.content = text] : text \in Texts}

ChangeNewBlog ==
    /\ Rendered
    /\ MayDraft("newBlog")
    /\ isCreateBlogOpen
    /\ newBlog' \in ChangedBlog(newBlog)
    /\ UNCHANGED <<envVars, channelVars, sessionVars, usersCache, blogsCache,
                   userDialogVars, editingBlog, isCreateBlogOpen, calls, timers,
                   toast, serverVars, events>>

\* if (!draft.title.trim() || !draft.content.trim())
InvalidBlog(draft) == trim(draft.title) = Empty \/ trim(draft.content) = Empty

\* content.substring(0, 150)
ExcerptChars == 150
\* A substring that returns the whole text.
uncut(s, from, to) == s

substring(s, from, to) == SubSeq(s, from + 1, IF to < Len(s) THEN to ELSE Len(s))

\* excerpt: draft.excerpt || draft.content.substring(0, 150) + '...'
Excerpt(draft) ==
    IF draft.excerpt # Empty
    THEN draft.excerpt
    ELSE substring(draft.content, 0, ExcerptChars) \o <<".", ".", ".">>

\* A text of n characters, no two neighbours alike.
Text(n) == [i \in 1..n |-> <<"p", "q", "r", "s", "t", "u", "v">>[(i % 7) + 1]]

\* The contents pasted into a post dialog: one character short of the
\* excerpt's length, exactly that long, one character longer.
LongTexts == {Text(ExcerptChars - 1), Text(ExcerptChars), Text(ExcerptChars + 1)}

\* The title, content and excerpt inputs of a post dialog, for a post that
\* passes the validation.
WrittenBlog(draft) ==
    {[draft EXCEPT !.title = <<"a">>]}
    \cup {[draft EXCEPT !.content = text] : text \in LongTexts}
    \cup {[draft EXCEPT !.excerpt = text] : text \in {Empty, Blank, <<"e">>}}

WriteNewBlog ==
    /\ Rendered
    /\ MayDraft("newBlog")
    /\ isCreateBlogOpen
    /\ newBlog' \in WrittenBlog(newBlog)
    /\ UNCHANGED <<envVars, channelVars, sessionVars, usersCache, blogsCache,
                   userDialogVars, editingBlog, isCreateBlogOpen, calls, timers,
                   toast, serverVars, events>>

\* createBlog up to its first await: the validation, then
\* supabase.auth.getUser().  The calls the handler goes on to make are
\* counted here.
createBlog ==
    /\ Rendered
    /\ isCreateBlogOpen
    /\ IF InvalidBlog(newBlog)
       THEN /\ toast' = ErrorToast("Please fill in title and content")
            /\ UNCHANGED calls
       ELSE /\ Len(calls) + 3 <= MaxCalls
            /\ InFlight < MaxInFlight
            /\ calls' = Append(calls, [Call("getUser") EXCEPT !.args = [newBlog |-> newBlog]])
            /\ UNCHANGED toast
    /\ UNCHANGED <<envVars, channelVars, pageVars, usersFrom, blogsFrom, timers,
                   serverVars, events>>

\* The identity service settles getUser; its result is only logged.
AnswerGetUser(c) ==
    /\ Sent(c, "getUser")
    /\ \E o \in Outcomes :
         calls' = [calls EXCEPT ![c] = [@ EXCEPT !.stage = "answered", !.outcome = o]]
    /\ UNCHANGED <<envVars, channelVars, pageVars, usersFrom, blogsFrom, timers,
                   toast, serverVars, events>>

\* const blogData = { title, content, excerpt, published, author_id: null }
BlogData(draft) ==
    [title |-> draft.title, content |-> draft.content, excerpt |-> Excerpt(draft),
     published |-> draft.published, author_id |-> "null"]

\* createBlog after its first await: getUser destructures data whatever the
\* error; the insert into 'blogs' is sent.
ResolveGetUser(c) ==
    /\ Answered(c, "getUser")
    /\ IF calls[c].outcome = "throw"
       THEN /\ calls' = [calls EXCEPT ![c] = Done(@)]
            /\ toast' = ErrorToast("Failed to create blog")
       ELSE /\ calls' = Append([calls EXCEPT ![c] = Done(@)],
                    [Call("insertBlog") EXCEPT
                        !.parent = c,
                        !.args = [blogData |-> BlogData(calls[c].args.newBlog)]])
            /\ UNCHANGED toast
    /\ UNCHANGED <<envVars, channelVars, pageVars, usersFrom, blogsFrom, timers,
                   serverVars, events>>

\* The identifiers the backend has not given to a post.
FreeBlogIds == BlogIds \ {r.id : r \in srvBlogs}

\* The backend settles .insert([blogData]).select().single() on 'blogs'.
AnswerInsertBlog(c) ==
    /\ Sent(c, "insertBlog")
    /\ \E o \in Outcomes :
         IF o = "ok"
         THEN /\ FreeBlogIds # {}
              /\ LET id == CHOOSE i \in FreeBlogIds : \A j \in FreeBlogIds : i <= j
                     data == calls[c].args.blogData
                 IN  /\ calls' = [calls EXCEPT ![c] = [@ EXCEPT !.stage = "answered",
                                                              !.outcome = o, !.id = id]]
                     /\ srvBlogs' = srvBlogs \cup
                            {Blog(id, data.title, data.content, data.excerpt, data.published)}
              /\ blogsVer' = blogsVer + 1
              /\ events' = NotifyBlogs
         ELSE /\ calls' = [calls EXCEPT ![c] = [@ EXCEPT !.stage = "answered", !.outcome = o]]
              /\ UNCHANGED <<srvBlogs, blogsVer, events>>
    /\ UNCHANGED <<envVars, channelVars, pageVars, usersFrom, blogsFrom, timers,
                   toast, srvProfiles, srvAuth, srvTriggers, profilesVer, remote>>

\* createBlog after its second await; on success it ends with fetchBlogs().
ResolveInsertBlog(c) ==
    /\ Answered(c, "insertBlog")
    /\ IF calls[c].outcome = "ok"
       THEN /\ calls' = Append([calls EXCEPT ![c] = Done(@)],
                    [Call("fetchBlogs") EXCEPT !.by = "createBlog", !.parent = c])
            /\ newBlog' = IF Mounted THEN BlankBlog ELSE newBlog
            /\ isCreateBlogOpen' = IF Mounted THEN FALSE ELSE isCreateBlogOpen
            /\ toast' = SuccessToast("Blog created successfully")
       ELSE /\ calls' = [calls EXCEPT ![c] = Done(@)]
            /\ toast' = ErrorToast(IF calls[c].outcome = "error"
                                   THEN "Failed to create blog: message"
                                   ELSE "Failed to create blog")
            /\ UNCHANGED <<newBlog, isCreateBlogOpen>>
    /\ UNCHANGED <<envVars, channelVars, sessionVars, usersCache, blogsCache,
                   userDialogVars, editingBlog, timers, serverVars, events>>

\* The edit button of a post: setEditingBlog(blog).
OpenEditBlog ==
    /\ Rendered
    /\ MayDraft("editingBlog")
    /\ \E i \in DOMAIN blogs : editingBlog' = blogs[i]
    /\ UNCHANGED <<envVars, channelVars, sessionVars, usersCache, blogsCache,
                   userDialogVars, isCreateBlogOpen, newBlog, calls, timers,
                   toast, serverVars, events>>

ChangeEditBlog ==
    /\ Rendered
    /\ editingBlog # NoBlog
    /\ editingBlog' \in ChangedBlog(editingBlog)
    /\ UNCHANGED <<envVars, channelVars, sessionVars, usersCache, blogsCache,
                   userDialogVars, isCreateBlogOpen, newBlog, calls, timers,
                   toast, serverVars, events>>

WriteEditBlog ==
    /\ Rendered
    /\ editingBlog # NoBlog
    /\ editingBlog' \in WrittenBlog(editingBlog)
    /\ UNCHANGED <<envVars, channelVars, sessionVars, usersCache, blogsCache,
                   userDialogVars, isCreateBlogOpen, newBlog, calls, timers,
                   toast, serverVars, events>>

\* Cancel, or the dialog's onOpenChange: setEditingBlog(null).
CloseEditBlog ==
    /\ Rendered
    /\ editingBlog # NoBlog
    /\ editingBlog' = NoBlog
    /\ UNCHANGED <<envVars, channelVars, sessionVars, usersCache, blogsCache,
                   userDialogVars, isCreateBlogOpen, newBlog, calls, timers,
                   toast, serverVars, events>>

\* updateBlog up to its await: the validation, then the update of 'blogs';
\* the handler holds the editingBlog and blogs of the render that created it.
updateBlog ==
    /\ Rendered
    /\ editingBlog # NoBlog
    /\ IF InvalidBlog(editingBlog)
       THEN /\ toast' = ErrorToast("Please fill in title and content")
            /\ UNCHANGED calls
       ELSE /\ Len(calls) < MaxCalls
            /\ Issued("updateBlog") < MaxEdits
            /\ InFlight < MaxInFlight
            /\ calls' = Append(calls,
                  [Call("updateBlog") EXCEPT
                      !.id = editingBlog.id,
                      !.args = [blogs |-> blogs,
                                patch |-> [title |-> editingBlog.title,
                                           content |-> editingBlog.content,
                                           excerpt |-> Excerpt(editingBlog),
                                           published |-> editingBlog.published]]])
            /\ UNCHANGED toast
    /\ UNCHANGED <<envVars, channelVars, pageVars, usersFrom, blogsFrom, timers,
                   serverVars, events>>

\* The backend settles .update({...}).eq('id', id).select().single() on
\* 'blogs': without the row, single() gives an error.
AnswerUpdateBlog(c) ==
    /\ Sent(c, "updateBlog")
    /\ LET hit == {r \in srvBlogs : r.id = calls[c].id}
           patch == calls[c].args.patch
           patched == {[r EXCEPT !.title = patch.title, !.content = patch.content,
                                 !.excerpt = patch.excerpt, !.published = patch.published]
                       : r \in hit}
       IN  \E o \in (IF hit = {} THEN {"error"} ELSE Outcomes) :
              /\ calls' = [calls EXCEPT ![c] = [@ EXCEPT
                              !.stage = "answered", !.outcome = o,
                              !.rows = IF o = "ok" THEN OrderDesc(patched) ELSE <<>>]]
              /\ srvBlogs' = IF o = "ok" THEN (srvBlogs \ hit) \cup patched ELSE srvBlogs
              /\ blogsVer' = IF o = "ok" THEN blogsVer + 1 ELSE blogsVer
              /\ events' = IF o = "ok" THEN NotifyBlogs ELSE events
    /\ UNCHANGED <<envVars, channelVars, pageVars, usersFrom, blogsFrom, timers,
                   toast, srvProfiles, srvAuth, srvTriggers, profilesVer, remote>>

\* setBlogs(blogs.map(blog => blog.id === editingBlog.id ? data : blog)),
\* with the blogs of the handler's closure.
BlogsAfterUpdate(c) ==
    [i \in DOMAIN calls[c].args.blogs |->
        IF calls[c].args.blogs[i].id = calls[c].id
        THEN calls[c].rows[1]
        ELSE calls[c].args.blogs[i]]

\* updateBlog after its await.
ResolveUpdateBlog(c) ==
    /\ Answered(c, "updateBlog")
    /\ calls' = [calls EXCEPT ![c] = Done(@)]
    /\ IF calls[c].outcome = "ok"
       THEN /\ blogs' = IF Mounted THEN BlogsAfterUpdate(c) ELSE blogs
            /\ blogsFrom' = IF Mounted THEN c ELSE blogsFrom
            /\ editingBlog' = IF Mounted THEN NoBlog ELSE editingBlog
            /\ toast' = SuccessToast("Blog updated successfully")
       ELSE /\ toast' = ErrorToast(IF calls[c].outcome = "error"
                                   THEN "Failed to update blog: message"
                                   ELSE "Failed to update blog")
            /\ UNCHANGED <<blogs, blogsFrom, editingBlog>>
    /\ UNCHANGED <<envVars, channelVars, sessionVars, usersCache, userDialogVars,
                   isCreateBlogOpen, newBlog, timers, serverVars, events>>

----------------------------------------------------------------------------
(* Post delete. *)

\* deleteBlog up to its await: confirm(), then the delete of the row is
\* sent; the handler holds the blogs of the render that created it.
deleteBlog ==
    /\ Rendered
    /\ Len(calls) < MaxCalls
    /\ InFlight < MaxInFlight
    /\ \E i \in DOMAIN blogs, confirmed \in BOOLEAN :
         calls' = IF confirmed
                  THEN Append(calls, [Call("deleteBlog") EXCEPT
                                         !.id = blogs[i].id,
                                         !.args = [blogs |-> blogs]])
                  ELSE calls
    /\ UNCHANGED <<envVars, channelVars, pageVars, usersFrom, blogsFrom, timers,
                   toast, serverVars, events>>

\* The backend settles .delete().eq('id', id) on 'blogs'.
AnswerDeleteBlog(c) ==
    /\ Sent(c, "deleteBlog")
    /\ \E o \in Outcomes :
         LET hit == {r \in srvBlogs : r.id = calls[c].id}
             changed == o = "ok" /\ hit # {}
         IN  /\ calls' = [calls EXCEPT ![c] = [@ EXCEPT !.stage = "answered", !.outcome = o,
                                                        !.ver = IF changed THEN blogsVer + 1
                                                                ELSE blogsVer]]
             /\ srvBlogs' = IF changed THEN srvBlogs \ hit ELSE srvBlogs
             /\ blogsVer' = IF changed THEN blogsVer + 1 ELSE blogsVer
             /\ events' = IF changed THEN NotifyBlogs ELSE events
    /\ UNCHANGED <<envVars, channelVars, pageVars, usersFrom, blogsFrom, timers,
                   toast, srvProfiles, srvAuth, srvTriggers, profilesVer, remote>>

\* A delete that writes the list back as the handler held it.
BlogsAfterDeleteKept(c) == calls[c].args.blogs

\* setBlogs(blogs.filter(blog => blog.id !== id)), with the blogs of the
\* handler's closure.
BlogsAfterDelete(c) ==
    SelectSeq(calls[c].args.blogs, LAMBDA blog : blog.id # calls[c].id)

\* deleteBlog after its await.
ResolveDeleteBlog(c) ==
    /\ Answered(c, "deleteBlog")
    /\ calls' = [calls EXCEPT ![c] = Done(@)]
    /\ IF calls[c].outcome = "ok"
       THEN /\ blogs' = IF Mounted THEN BlogsAfterDelete(c) ELSE blogs
            /\ blogsFrom' = IF Mounted THEN c ELSE blogsFrom
            /\ toast' = SuccessToast("Blog deleted successfully")
       ELSE /\ toast' = ErrorToast(IF calls[c].outcome = "error"
                                   THEN "Failed to delete blog: message"
                                   ELSE "Failed to delete blog")
            /\ UNCHANGED <<blogs, blogsFrom>>
    /\ UNCHANGED <<envVars, channelVars, sessionVars, usersCache, userDialogVars,
                   blogDialogVars, timers, serverVars, events>>

----------------------------------------------------------------------------
(* The figures the rendered page derives from the cached accounts. *)

totalUsers == Len(users)

\* users.filter(user => user.subscription_tier === 'premium').length
premiumUsers == Len(SelectSeq(users, LAMBDA user : user.subscription_tier = "premium"))

\* $9 per premium user
PricePerPremiumUser == 9

\* A revenue figure that charges every account.
totalRevenueOfAll == totalUsers * PricePerPremiumUser

totalRevenue == premiumUsers * PricePerPremiumUser

----------------------------------------------------------------------------
(* Specifications. *)

Lifecycle == SessionCheck \/ SubscribeEffect \/ Unmount \/ handleSignOut \/ Tick

Fetching ==
    \/ Refresh
    \/ \E c \in 1..MaxCalls : AnswerFetchUsers(c)
    \/ \E c \in 1..MaxCalls : AnswerFetchBlogs(c)
    \/ \E c \in 1..MaxCalls : ResolveFetchUsers(c)
    \/ \E c \in 1..MaxCalls : ResolveFetchBlogs(c)

Realtime == RemoteChangeUsers \/ RemoteChangeBlogs \/ UsersChanged \/ BlogsChanged

\* The page from construction on, with every token the guard may find: the
\* session guard, the listeners' lifetime, the fetches and the clock.
Next == Lifecycle \/ Fetching

Spec == Init /\ [][Next]_vars

\* The page of a session admitted well within its 24 hours.
InitAdmitted == Init /\ storage = Token(0 - 1)

\* The admitted page with its fetches, other clients' changes and the
\* listeners' callbacks: the synchronisation of the two cached lists.
NextSync ==
    \/ SessionCheck \/ SubscribeEffect \/ Unmount \/ handleSignOut
    \/ Fetching
    \/ Realtime

SpecSync == InitAdmitted /\ [][NextSync]_vars

\* The fetches of accounts and posts without the Refresh button.
Loading ==
    \/ \E c \in 1..MaxCalls : AnswerFetchUsers(c)
    \/ \E c \in 1..MaxCalls : AnswerFetchBlogs(c)
    \/ \E c \in 1..MaxCalls : ResolveFetchUsers(c)
    \/ \E c \in 1..MaxCalls : ResolveFetchBlogs(c)

AccountEdit ==
    \/ OpenEditUser \/ ChangeEditUser \/ CloseEditUser \/ updateUser
    \/ \E c \in 1..MaxCalls : AnswerUpdateUser(c)
    \/ \E c \in 1..MaxCalls : ResolveUpdateUser(c)

AccountDelete ==
    \/ deleteUser
    \/ \E c \in 1..MaxCalls : AnswerDeleteProfile(c)
    \/ \E c \in 1..MaxCalls : ResolveDeleteProfile(c)
    \/ \E c \in 1..MaxCalls : AnswerDeleteIdentity(c)
    \/ \E c \in 1..MaxCalls : ResolveDeleteIdentity(c)

\* The admitted page on which the admin edits accounts while other clients
\* change them and the accounts listener re-fetches.
NextEdit ==
    \/ SessionCheck \/ SubscribeEffect
    \/ Loading
    \/ RemoteChangeUsers \/ UsersChanged
    \/ AccountEdit

SpecEdit == InitAdmitted /\ [][NextEdit]_vars

\* The admitted page on which the admin deletes accounts.
NextDelete ==
    \/ SessionCheck \/ SubscribeEffect
    \/ Loading
    \/ RemoteChangeUsers \/ UsersChanged
    \/ AccountDelete

SpecDelete == InitAdmitted /\ [][NextDelete]_vars

\* The admitted page on which the admin edits accounts as time passes.
NextRenew ==
    \/ SessionCheck \/ SubscribeEffect
    \/ Loading
    \/ AccountEdit
    \/ Tick

SpecRenew == InitAdmitted /\ [][NextRenew]_vars

AccountCreate ==
    \/ OpenCreateUser \/ ChangeNewUserLogin \/ ChangeNewUserProfile
    \/ CloseCreateUser \/ createUser
    \/ \E c \in 1..MaxCalls : AnswerSignUp(c)
    \/ \E c \in 1..MaxCalls : ResolveSignUp(c)
    \/ ProfileTrigger
    \/ FireTimer
    \/ \E c \in 1..MaxCalls : AnswerSetPremium(c)
    \/ \E c \in 1..MaxCalls : ResolveSetPremium(c)

\* The admitted page on which the admin creates accounts as time passes.
NextCreate ==
    \/ SessionCheck \/ SubscribeEffect
    \/ Loading
    \/ AccountCreate
    \/ Tick

SpecCreate == InitAdmitted /\ [][NextCreate]_vars

PostCreate ==
    \/ OpenCreateBlog \/ ChangeNewBlog \/ CloseCreateBlog \/ createBlog
    \/ \E c \in 1..MaxCalls : AnswerGetUser(c)
    \/ \E c \in 1..MaxCalls : ResolveGetUser(c)
    \/ \E c \in 1..MaxCalls : AnswerInsertBlog(c)
    \/ \E c \in 1..MaxCalls : ResolveInsertBlog(c)

PostEdit ==
    \/ OpenEditBlog \/ ChangeEditBlog \/ CloseEditBlog \/ updateBlog
    \/ \E c \in 1..MaxCalls : AnswerUpdateBlog(c)
    \/ \E c \in 1..MaxCalls : ResolveUpdateBlog(c)

\* The create-account form without the backend's trigger and the timers.
AccountForm ==
    \/ OpenCreateUser \/ ChangeNewUserLogin \/ CloseCreateUser \/ createUser
    \/ \E c \in 1..MaxCalls : AnswerSignUp(c)
    \/ \E c \in 1..MaxCalls : ResolveSignUp(c)

\* The admitted page on which the admin submits the three validated forms.
NextForms ==
    \/ SessionCheck \/ SubscribeEffect
    \/ Loading
    \/ AccountForm
    \/ PostCreate
    \/ PostEdit

SpecForms == InitAdmitted /\ [][NextForms]_vars

\* The admitted page on which the admin writes posts of every length around
\* the excerpt's, with and without an excerpt.
NextExcerpt ==
    \/ SessionCheck \/ SubscribeEffect
    \/ Loading
    \/ OpenCreateBlog \/ WriteNewBlog \/ createBlog
    \/ \E c \in 1..MaxCalls : AnswerGetUser(c)
    \/ \E c \in 1..MaxCalls : ResolveGetUser(c)
    \/ \E c \in 1..MaxCalls : AnswerInsertBlog(c)
    \/ \E c \in 1..MaxCalls : ResolveInsertBlog(c)
    \/ OpenEditBlog \/ WriteEditBlog \/ updateBlog
    \/ \E c \in 1..MaxCalls : AnswerUpdateBlog(c)
    \/ \E c \in 1..MaxCalls : ResolveUpdateBlog(c)

SpecExcerpt == InitAdmitted /\ [][NextExcerpt]_vars

\* The admitted page on which the admin creates, edits and deletes accounts
\* and the accounts listener re-fetches after each change.
NextRevenue ==
    \/ SessionCheck \/ SubscribeEffect
    \/ Loading
    \/ UsersChanged
    \/ AccountForm \/ ProfileTrigger
    \/ AccountEdit
    \/ AccountDelete

SpecRevenue == InitAdmitted /\ [][NextRevenue]_vars

PostDelete ==
    \/ deleteBlog
    \/ \E c \in 1..MaxCalls : AnswerDeleteBlog(c)
    \/ \E c \in 1..MaxCalls : ResolveDeleteBlog(c)

\* The six mutations with the inputs their submit needs: the create forms
\* are typed into, the edit forms are submitted as opened.
NextMutations ==
    \/ SessionCheck \/ SubscribeEffect
    \/ Loading
    \/ AccountForm
    \/ PostCreate
    \/ OpenEditUser \/ CloseEditUser \/ updateUser
    \/ \E c \in 1..MaxCalls : AnswerUpdateUser(c)
    \/ \E c \in 1..MaxCalls : ResolveUpdateUser(c)
    \/ AccountDelete
    \/ OpenEditBlog \/ CloseEditBlog \/ updateBlog
    \/ \E c \in 1..MaxCalls : AnswerUpdateBlog(c)
    \/ \E c \in 1..MaxCalls : ResolveUpdateBlog(c)
    \/ PostDelete

SpecMutations == InitAdmitted /\ [][NextMutations]_vars

\* The admitted page on which the admin deletes posts while fetches of posts
\* (a refresh, the posts listener) are in flight.
NextPosts ==
    \/ SessionCheck \/ SubscribeEffect
    \/ Refresh
    \/ Loading
    \/ BlogsChanged
    \/ PostDelete

SpecPosts == InitAdmitted /\ [][NextPosts]_vars

----------------------------------------------------------------------------
(* Properties. *)

\* The step in which call c resolves: the code after its await runs.
Resolves(c) == c \in DOMAIN calls /\ calls[c].stage = "answered" /\ calls'[c].stage = "done"

FetchesOf(op) == {c \in DOMAIN calls : calls[c].op = op}

\* C1: the session guard on page entry.  For a stored token that parses: if
\* now - loginTime <= 24 h (the boundary included) the guard sets the admitted
\* session, starts fetchAll (loading, one fetch of each collection) and leaves
\* the token in local storage; if now - loginTime > 24 h it deletes the token,
\* redirects to /admin and does not admit the session, then or later.
C1_SessionGuard ==
    [][ /\ (phase = "init" /\ phase' # "init" /\ storage.kind = "json") =>
             IF now - storage.loginTime <= SessionTTL
             THEN /\ adminSession' = [kind |-> "session", loginTime |-> storage.loginTime]
                  /\ phase' = "mounted"
                  /\ route' = route
                  /\ storage' = storage
                  /\ loading'
                  /\ Len(calls') = Len(calls) + 2
                  /\ {calls'[c].op : c \in DOMAIN calls' \ DOMAIN calls} = {"fetchUsers", "fetchBlogs"}
                  /\ \A c \in DOMAIN calls' \ DOMAIN calls : calls'[c].stage = "sent"
             ELSE /\ storage' = Absent
                  /\ route' = "/admin"
                  /\ phase' = "unmounted"
                  /\ adminSession' = NoSession
                  /\ calls' = calls
        /\ (phase # "init" /\ adminSession = NoSession) => adminSession' = NoSession
      ]_vars

\* C1 witness: a session of exactly 24 hours has been admitted, its token is
\* still stored and fetchAll is under way.
C1_Witness ==
    /\ Mounted
    /\ adminSession.kind = "session"
    /\ now - adminSession.loginTime = SessionTTL
    /\ storage = Token(adminSession.loginTime)
    /\ loading
    /\ Len(calls) = 2

\* C2: fetchAccounts and fetchPosts.  When the backend answers a fetch with
\* success the cached list of that collection becomes exactly the response;
\* when it answers with an error or the call throws, that cached list is what
\* it was and an error notification is raised.  Either way the other
\* collection's cached list is unchanged.
C2_FetchReplacesOrKeeps ==
    [][ \A c \in DOMAIN calls : (Mounted /\ Resolves(c)) =>
          /\ calls[c].op = "fetchUsers" =>
                /\ blogs' = blogs
                /\ IF calls[c].outcome = "ok"
                   THEN users' = calls[c].rows
                   ELSE users' = users /\ toast'.kind = "error"
          /\ calls[c].op = "fetchBlogs" =>
                /\ users' = users
                /\ IF calls[c].outcome = "ok"
                   THEN blogs' = calls[c].rows
                   ELSE blogs' = blogs /\ toast'.kind = "error"
      ]_vars

\* C2 witness: a fetch of accounts failed after an earlier one had filled the
\* cached list, which is still that earlier response; posts were fetched too.
C2_Witness ==
    /\ Mounted
    /\ usersFrom > 0 /\ blogsFrom > 0
    /\ users # <<>>
    /\ toast.kind = "error"
    /\ \E c \in FetchesOf("fetchUsers") :
          c > usersFrom /\ calls[c].stage = "done" /\ calls[c].outcome # "ok"

SignedOut == storage = Absent /\ route = "/admin" /\ adminSession # NoSession

ListenersOpen == usersChannel = "subscribed" \/ blogsChannel = "subscribed"

\* C3 as stated: if the page is unmounted, the admin has signed out, or the
\* admitted session's token is older than 24 hours, no listener is open.
C3_Original ==
    (\/ phase = "unmounted"
     \/ SignedOut
     \/ adminSession # NoSession /\ now - adminSession.loginTime > SessionTTL)
    => ~ListenersOpen

\* C3 as amended: listeners are opened only after a session was admitted, and
\* none is open once the page is unmounted or the admin has signed out (which
\* leaves the page).  A session that turns 24 hours old while the page stays
\* mounted keeps its listeners.
C3_ListenersEndWithPage ==
    /\ (phase # "mounted" \/ SignedOut) => ~ListenersOpen
    /\ (usersChannel # "none" \/ blogsChannel # "none") => adminSession # NoSession

\* C3 witness: the admin signed out of a page whose listeners were open, and
\* both have been removed.
C3_Witness ==
    /\ SignedOut
    /\ usersChannel = "removed"
    /\ blogsChannel = "removed"

\* C4: two fetches of one collection in flight at once.  No step cancels a
\* call in flight (a call leaves flight only by resolving, after the backend
\* settled it), and the cached list changes only when a fetch of its collection
\* resolves with success, to that fetch's response, whether or not a fetch
\* issued later has resolved before: the response that resolves last stands.
C4_LastResolvedWins ==
    [][ /\ Len(calls') >= Len(calls)
        /\ \A c \in DOMAIN calls :
             \/ calls'[c] = calls[c]
             \/ calls[c].stage = "sent" /\ calls'[c].stage = "answered"
             \/ calls[c].stage = "answered" /\ calls'[c].stage = "done"
        /\ \A c \in DOMAIN calls :
             (Mounted /\ Resolves(c) /\ calls[c].outcome = "ok") =>
                /\ calls[c].op = "fetchUsers" => users' = calls[c].rows /\ usersFrom' = c
                /\ calls[c].op = "fetchBlogs" => blogs' = calls[c].rows /\ blogsFrom' = c
        /\ users' # users =>
             \E c \in FetchesOf("fetchUsers") : Resolves(c) /\ calls[c].outcome = "ok"
        /\ blogs' # blogs =>
             \E c \in FetchesOf("fetchBlogs") : Resolves(c) /\ calls[c].outcome = "ok"
      ]_vars

\* C4 witness: two fetches of accounts were in flight together and resolved
\* in the reverse of the order of issue; the cached list is the response of
\* the one issued first, which is no longer what the backend holds.
C4_Witness ==
    /\ Mounted
    /\ usersFrom > 0
    /\ \E d \in FetchesOf("fetchUsers") :
          d > usersFrom /\ calls[d].stage = "done" /\ calls[d].outcome = "ok"
    /\ \A c \in FetchesOf("fetchUsers") : ~Live(c)
    /\ users # OrderDesc(srvProfiles)

\* Every call issued so far has resolved with success, every change of
\* 'profiles' was notified to the page and its callback has run.
UsersSettled ==
    /\ Mounted
    /\ usersChannel = "subscribed"
    /\ usersFrom > 0
    /\ \A c \in DOMAIN calls : calls[c].stage = "done" /\ calls[c].outcome = "ok"
    /\ events.users = 0
    /\ Cardinality({c \in FetchesOf("fetchUsers") : calls[c].by = "listener"}) = profilesVer

\* C5 as stated: once the remote collection has stopped changing and every
\* fetch has resolved with success, the cached list of accounts is what the
\* backend holds (the race costs one redundant fetch at worst).
C5_Original == UsersSettled => users = OrderDesc(srvProfiles)

\* C5 as amended: the cached list of accounts is the response that resolved
\* last; it is what the backend holds whenever the backend produced that
\* response after its last change of the collection.  A response produced
\* before the last change that resolves after a newer one leaves the cached
\* list stale until the next fetch.
C5_FreshResponseMatchesServer ==
    (Mounted /\ usersFrom > 0 /\ calls[usersFrom].ver = profilesVer)
    => users = OrderDesc(srvProfiles)

\* C5 witness: a listener's fetch and a user's refresh of accounts after a
\* remote change have both resolved, and the cached list is the changed
\* collection.
C5_Witness ==
    /\ UsersSettled
    /\ profilesVer > 0
    /\ calls[usersFrom].ver = profilesVer
    /\ \E c \in FetchesOf("fetchUsers") : calls[c].by = "listener"
    /\ \E c \in FetchesOf("fetchUsers") : c > 2 /\ calls[c].by = "fetchData"
    /\ users = OrderDesc(srvProfiles)

\* C6 as stated: when an account update resolves with success, the cached
\* list differs from the cached list held at that moment only in the record
\* with the edited identifier, which becomes the submitted values with the
\* computed expiry; the other records and the order are unchanged, also when
\* a fetch of accounts resolved while the update was in flight.
C6_Original ==
    [][ \A c \in DOMAIN calls :
          (Mounted /\ Resolves(c) /\ calls[c].op = "updateUser" /\ calls[c].outcome = "ok") =>
             /\ Len(users') = Len(users)
             /\ \A i \in DOMAIN users :
                   users'[i] = IF users[i].id = calls[c].id
                               THEN [calls[c].args.editingUser EXCEPT
                                        !.subscription_end = calls[c].args.subscriptionEnd]
                               ELSE users[i]
      ]_vars

\* The step in which a handler sends a call of the given kind.
Sends(op) == Len(calls') = Len(calls) + 1 /\ calls'[Len(calls')].op = op

\* The step in which the backend settles call c.
Answers(c) == c \in DOMAIN calls /\ calls[c].stage = "sent" /\ calls'[c].stage = "answered"

\* The expiry the edit of a draft submitted at a given moment must give.
ExpiryRule(draft, moment) ==
    CASE draft.subscription_tier = "premium" /\ draft.subscription_end \in {NullEnd, EmptyEnd} ->
            [kind |-> "iso", t |-> moment + 30 * 24 * 60 * 60 * 2]
      [] draft.subscription_tier = "premium" /\ draft.subscription_end \notin {NullEnd, EmptyEnd} ->
            draft.subscription_end
      [] draft.subscription_tier = "free" -> NullEnd

\* C7: the expiry rule of an account edit.  A premium draft without expiry
\* gets the moment of the update plus 30 days, a premium draft with an expiry
\* keeps it, a free draft gets none, whatever it had: in the patch the handler
\* sends, in the row the backend stores on success, and in the record the
\* handler writes to the cached list.
C7_ExpiryRule ==
    [][ /\ Sends("updateUser") =>
             calls'[Len(calls')].args.subscriptionEnd = ExpiryRule(editingUser, now)
        /\ \A c \in DOMAIN calls :
             (calls[c].op = "updateUser" /\ calls[c].outcome = "ok" /\ Resolves(c) /\ Mounted) =>
                \A i \in DOMAIN users' :
                   users'[i].id = calls[c].id =>
                      /\ users'[i].subscription_tier = calls[c].args.editingUser.subscription_tier
                      /\ users'[i].subscription_end =
                            ExpiryRule(calls[c].args.editingUser, calls[c].at)
        /\ \A c \in DOMAIN calls :
             (calls[c].op = "updateUser" /\ Answers(c) /\ calls'[c].outcome = "ok") =>
                \A r \in srvProfiles' :
                   r.id = calls[c].id =>
                      /\ r.subscription_tier = calls[c].args.editingUser.subscription_tier
                      /\ r.subscription_end =
                            StoredEnd(ExpiryRule(calls[c].args.editingUser, calls[c].at))
      ]_vars

\* C7 witness: an edit submitted after the clock had advanced made a free
\* account premium without an expiry; the backend's row and the cached record
\* both expire 30 days after the moment of that update.
C7_Witness ==
    /\ Mounted
    /\ \E c \in DOMAIN calls :
          /\ calls[c].op = "updateUser" /\ calls[c].stage = "done" /\ calls[c].outcome = "ok"
          /\ calls[c].at > 0
          /\ \E i \in DOMAIN users :
                /\ users[i].id = calls[c].id
                /\ users[i].subscription_tier = "premium"
                /\ users[i].subscription_end = [kind |-> "iso", t |-> calls[c].at + ThirtyDays]
          /\ \E r \in srvProfiles :
                /\ r.id = calls[c].id
                /\ r.subscription_tier = "premium"
                /\ r.subscription_end = [kind |-> "iso", t |-> calls[c].at + ThirtyDays]

\* C8: account delete after confirmation.  The identity deletion is sent only
\* by the step in which the profile deletion of the same account resolves
\* with success.  When the profile deletion fails, no call is sent, the cached
\* list is unchanged and an error is notified.  When the identity deletion
\* resolves, with success or not, the cached list holds no record of the
\* account, success is notified and the backend's profiles are untouched.
C8_DeleteOrder ==
    [][ /\ Sends("deleteIdentity") =>
             \E c \in DOMAIN calls :
                /\ Resolves(c)
                /\ calls[c].op = "deleteProfile" /\ calls[c].outcome = "ok"
                /\ calls'[Len(calls')].id = calls[c].id
        /\ \A c \in DOMAIN calls :
             (Resolves(c) /\ calls[c].op = "deleteProfile" /\ calls[c].outcome # "ok") =>
                /\ Len(calls') = Len(calls)
                /\ users' = users
                /\ toast'.kind = "error"
        /\ \A c \in DOMAIN calls :
             (Resolves(c) /\ calls[c].op = "deleteIdentity") =>
                /\ Mounted => \A i \in DOMAIN users' : users'[i].id # calls[c].id
                /\ toast' = [kind |-> "success", msg |-> "User deleted successfully"]
                /\ srvProfiles' = srvProfiles
                /\ Len(calls') = Len(calls)
      ]_vars

\* C8 witness: the profile of an account was deleted, the identity deletion
\* failed and left the identity in place; the cached list and the backend hold
\* no record of the account and success was notified.
C8_Witness ==
    /\ Mounted
    /\ toast = [kind |-> "success", msg |-> "User deleted successfully"]
    /\ \E c \in DOMAIN calls :
          /\ calls[c].op = "deleteIdentity" /\ calls[c].stage = "done"
          /\ calls[c].outcome # "ok"
          /\ calls[c].id \in srvAuth
          /\ \A i \in DOMAIN users : users[i].id # calls[c].id
          /\ \A r \in srvProfiles : r.id # calls[c].id

\* The timers a creation (the signUp call c) has registered and not yet run.
TimersOf(c, kind) == {i \in DOMAIN timers : timers[i].parent = c /\ timers[i].kind = kind}

\* The calls the timers of a creation have sent.
TimerCallsOf(c, op) ==
    {d \in DOMAIN calls : calls[d].by = "timer" /\ calls[d].parent = c /\ calls[d].op = op}

\* C9: account create once the identity service accepted it.  The step that
\* resumes createUser notifies success, resets the form and closes the dialog
\* and sends no call; with premium selected it schedules one subscription
\* update 1000 ms later, for the created identity, with expiry that moment
\* plus 30 days, and with either tier it schedules the re-fetch 1500 ms later.
\* A subscription update is sent only by such a timer, once per creation, not
\* before it is due and while the re-fetch of the same creation is still
\* waiting; the re-fetch is sent not before it is due.  No step of the
\* follow-up update removes an identity or sends another call.
C9_CreateFollowUp ==
    [][ /\ \A c \in DOMAIN calls :
             (Resolves(c) /\ calls[c].op = "signUp" /\ calls[c].outcome = "ok") =>
                /\ toast'.kind = "success"
                /\ Mounted => (newUser' = [email |-> <<>>, password |-> <<>>, full_name |-> "",
                                           subscription_tier |-> "free"]
                               /\ ~isCreateUserOpen')
                /\ Len(calls') = Len(calls)
                /\ Len(timers') = Len(timers) +
                       (IF calls[c].args.newUser.subscription_tier = "premium" THEN 2 ELSE 1)
                /\ \A i \in DOMAIN timers : timers'[i] = timers[i]
                /\ \A i \in DOMAIN timers' \ DOMAIN timers :
                      /\ timers'[i].parent = c
                      /\ timers'[i].kind \in {"setPremium", "fetchUsers"}
                      /\ timers'[i].kind = "fetchUsers" => timers'[i].due = now + 3
                      /\ timers'[i].kind = "setPremium" =>
                            /\ calls[c].args.newUser.subscription_tier = "premium"
                            /\ timers'[i].due = now + 2
                            /\ timers'[i].id = calls[c].id
                            /\ timers'[i].subscriptionEnd =
                                  [kind |-> "iso", t |-> now + 30 * 24 * 60 * 60 * 2]
                /\ \E i \in DOMAIN timers' \ DOMAIN timers : timers'[i].kind = "fetchUsers"
                /\ calls[c].args.newUser.subscription_tier = "premium" =>
                      \E i \in DOMAIN timers' \ DOMAIN timers : timers'[i].kind = "setPremium"
        /\ Sends("setPremium") =>
             LET call == calls'[Len(calls')]
             IN  \E i \in TimersOf(call.parent, "setPremium") :
                    /\ timers[i].due <= now
                    /\ call.id = timers[i].id
                    /\ call.args.subscriptionEnd = timers[i].subscriptionEnd
                    /\ Len(timers') = Len(timers) - 1
                    /\ \A j \in DOMAIN timers' : timers'[j].kind # "setPremium"
                                                  \/ timers'[j].parent # call.parent
                    /\ TimerCallsOf(call.parent, "setPremium") = {}
                    /\ TimerCallsOf(call.parent, "fetchUsers") = {}
                    /\ \E j \in DOMAIN timers' :
                          timers'[j].kind = "fetchUsers" /\ timers'[j].parent = call.parent
        /\ (Sends("fetchUsers") /\ calls'[Len(calls')].by = "timer") =>
             LET call == calls'[Len(calls')]
             IN  /\ TimersOf(call.parent, "setPremium") = {}
                 /\ \E i \in TimersOf(call.parent, "fetchUsers") : timers[i].due <= now
        /\ \A c \in DOMAIN calls :
             (calls[c].op = "setPremium" /\ (Answers(c) \/ Resolves(c))) =>
                /\ srvAuth' = srvAuth
                /\ Len(calls') = Len(calls)
                /\ timers' = timers
                /\ Resolves(c) => (toast' # toast => calls[c].outcome = "error")
        /\ srvAuth \subseteq srvAuth'
      ]_vars

\* C9 witness: a premium account was created at moment 0; its subscription
\* update was sent, failed and was notified, the re-fetch was sent after it,
\* and the identity is still there.
C9_Witness ==
    \E c \in DOMAIN calls :
       /\ calls[c].op = "signUp" /\ calls[c].stage = "done" /\ calls[c].outcome = "ok"
       /\ calls[c].id \in srvAuth
       /\ \E d \in TimerCallsOf(c, "setPremium") :
             /\ calls[d].stage = "done" /\ calls[d].outcome = "error"
             /\ \E e \in TimerCallsOf(c, "fetchUsers") : e > d
       /\ toast = [kind |-> "error",
                   msg |-> "User created but subscription update failed: message"]
       /\ timers = <<>>

\* C10: validation errors never reach the backend.  A submit of the create
\* account form whose email or password is empty or blank, and a submit of
\* the create post or edit post form whose title or content is empty or
\* blank, sends no call, notifies an error and leaves both cached lists,
\* every draft, the dialogs' open state, the timers and the backend as they
\* were.
C10_ValidationStopsCall ==
    [][ LET Missing(text) == \A i \in DOMAIN text : text[i] = " "
            Rejected ==
                /\ calls' = calls
                /\ toast'.kind = "error"
                /\ users' = users /\ blogs' = blogs
                /\ newUser' = newUser /\ newBlog' = newBlog
                /\ editingUser' = editingUser /\ editingBlog' = editingBlog
                /\ isCreateUserOpen' = isCreateUserOpen
                /\ isCreateBlogOpen' = isCreateBlogOpen
                /\ timers' = timers
                /\ serverVars' = serverVars
        IN  /\ (createUser /\ (Missing(newUser.email) \/ Missing(newUser.password))) =>
                 Rejected /\ toast'.msg = "Please fill in email and password"
            /\ (createBlog /\ (Missing(newBlog.title) \/ Missing(newBlog.content))) =>
                 Rejected /\ toast'.msg = "Please fill in title and content"
            /\ (updateBlog /\ (Missing(editingBlog.title) \/ Missing(editingBlog.content))) =>
                 Rejected /\ toast'.msg = "Please fill in title and content"
      ]_vars

\* C10 witness: with accounts and posts cached, the admin submitted the
\* create account form with a blank password; the error is notified, the
\* dialog is open with the draft as typed and no call beyond the two fetches
\* of the mount was sent.
C10_Witness ==
    /\ Rendered
    /\ users # <<>> /\ blogs # <<>>
    /\ isCreateUserOpen
    /\ newUser.email = <<"a">> /\ newUser.password = <<" ">>
    /\ toast = [kind |-> "error", msg |-> "Please fill in email and password"]
    /\ Len(calls) = 2

\* The step leaves the page as a failed mutation must: an error is notified,
\* the cached lists, the dialogs and their drafts are as they were, no call
\* is sent and no timer registered.
Aborted ==
    /\ toast'.kind = "error"
    /\ users' = users /\ blogs' = blogs
    /\ dialogVars' = dialogVars
    /\ Len(calls') = Len(calls)
    /\ timers' = timers

ExcerptRule(draft) ==
    IF Len(draft.excerpt) > 0
    THEN draft.excerpt
    ELSE IF Len(draft.content) > 150
         THEN [i \in 1..153 |-> IF i <= 150 THEN draft.content[i] ELSE "."]
         ELSE [i \in 1..(Len(draft.content) + 3) |->
                 IF i <= Len(draft.content) THEN draft.content[i] ELSE "."]

\* C12: the excerpt of post create and post edit.  The insert and the update
\* are sent with the draft's excerpt when it is not empty, and otherwise with
\* the first 150 characters of the content followed by "...", the whole
\* content when it has 150 characters or fewer; the backend stores what was
\* sent.  The insert is sent with a null author.
C12_ExcerptRule ==
    [][ /\ Sends("insertBlog") =>
             \E c \in DOMAIN calls :
                /\ Resolves(c) /\ calls[c].op = "getUser"
                /\ LET sent == calls'[Len(calls')].args.blogData
                       draft == calls[c].args.newBlog
                   IN  /\ sent.excerpt = ExcerptRule(draft)
                       /\ sent.author_id = "null"
                       /\ sent.title = draft.title /\ sent.content = draft.content
        /\ Sends("updateBlog") =>
             LET sent == calls'[Len(calls')].args.patch
             IN  /\ sent.excerpt = ExcerptRule(editingBlog)
                 /\ sent.title = editingBlog.title /\ sent.content = editingBlog.content
        /\ \A c \in DOMAIN calls :
             (Answers(c) /\ calls'[c].outcome = "ok") =>
                /\ calls[c].op = "insertBlog" =>
                      \E r \in srvBlogs' \ srvBlogs :
                         /\ r.content = calls[c].args.blogData.content
                         /\ r.excerpt = calls[c].args.blogData.excerpt
                /\ calls[c].op = "updateBlog" =>
                      \A r \in srvBlogs' :
                         r.id = calls[c].id => r.excerpt = calls[c].args.patch.excerpt
      ]_vars

\* C12 witness: a post of 151 characters was created without an excerpt and
\* the backend holds it with an excerpt of 153 characters, the first 150 of
\* the content and three dots; the only post cached has its own excerpt.
C12_Witness ==
    /\ Mounted
    /\ \E r \in srvBlogs :
          /\ Len(r.content) = 151
          /\ Len(r.excerpt) = 153
          /\ \A i \in 1..150 : r.excerpt[i] = r.content[i]
          /\ \A i \in 151..153 : r.excerpt[i] = "."
    /\ \E c \in DOMAIN calls : calls[c].op = "insertBlog" /\ calls[c].outcome = "ok"

\* The post deletions that have completed with success.
Deleted == {d \in DOMAIN calls : /\ calls[d].op = "deleteBlog"
                                 /\ calls[d].stage = "done"
                                 /\ calls[d].outcome = "ok"}

\* C13 as stated (its last part): once a post delete has completed with
\* success the post is absent from the cached list, also after a fetch of
\* posts that was in flight during the delete has resolved.
C13_Original ==
    Mounted => \A d \in Deleted : \A i \in DOMAIN blogs : blogs[i].id # calls[d].id

\* C13 as amended: the submit step sends the delete and changes nothing
\* else; only the backend's answer to it removes the row; when the delete
\* resolves with success the row is gone from the backend and the cached list
\* written holds no post of that identifier, and when it fails the cached
\* list is unchanged.  A fetch the backend answered after the deletion
\* resolves to a list without the post; a fetch answered before it that
\* resolves after the delete puts the post back until the next fetch.
C13_DeleteThenDrop ==
    [][ /\ Sends("deleteBlog") =>
             blogs' = blogs /\ srvBlogs' = srvBlogs /\ toast' = toast
        /\ srvBlogs' # srvBlogs =>
             \E c \in DOMAIN calls :
                /\ Answers(c) /\ calls[c].op = "deleteBlog" /\ calls'[c].outcome = "ok"
                /\ srvBlogs' = {r \in srvBlogs : r.id # calls[c].id}
        /\ \A c \in DOMAIN calls : (Resolves(c) /\ calls[c].op = "deleteBlog") =>
             IF calls[c].outcome = "ok"
             THEN /\ \A r \in srvBlogs : r.id # calls[c].id
                  /\ \A i \in DOMAIN blogs' : blogs'[i].id # calls[c].id
                  /\ toast'.kind = "success"
             ELSE blogs' = blogs /\ toast'.kind = "error"
        /\ \A f \in DOMAIN calls :
             (Resolves(f) /\ calls[f].op = "fetchBlogs" /\ calls[f].outcome = "ok") =>
                \A d \in DOMAIN calls :
                   (/\ calls[d].op = "deleteBlog" /\ calls[d].outcome = "ok"
                    /\ calls[d].ver <= calls[f].ver) =>
                      \A i \in DOMAIN blogs' : blogs'[i].id # calls[d].id
      ]_vars

\* C13 witness: a post was deleted, the posts listener re-fetched after the
\* deletion and its response, which resolved after the delete, is the cached
\* list: what the backend holds, without the post.
C13_Witness ==
    /\ Mounted
    /\ Deleted # {}
    /\ blogsFrom > 0
    /\ calls[blogsFrom].op = "fetchBlogs" /\ calls[blogsFrom].by = "listener"
    /\ \A d \in Deleted :
          /\ d < blogsFrom
          /\ \A i \in DOMAIN blogs : blogs[i].id # calls[d].id
          /\ \A r \in srvBlogs : r.id # calls[d].id
    /\ blogs = OrderDesc(srvBlogs)

\* The calls of fetchAll, and the other call of the pair a call belongs to.
FetchAllCalls(log) == {c \in DOMAIN log : log[c].by = "fetchData"}
Partner(c) == IF calls[c].op = "fetchUsers" THEN c + 1 ELSE c - 1

\* C14: fetchAll.  Its start sends one fetch of accounts and one of posts in
\* the same step and sets the loading flag.  When one of the two resolves
\* with success its list becomes its response whatever the other did, and
\* the other list is not touched.  On the mounted page the loading flag is
\* set while a call of fetchAll is unresolved, stays as it is when the first
\* of a pair resolves, and is cleared when the second does, whatever the two
\* outcomes.
C14_FetchAll ==
    [][ /\ FetchAllCalls(calls') # FetchAllCalls(calls) =>
             /\ Len(calls') = Len(calls) + 2
             /\ calls'[Len(calls) + 1] = [calls'[Len(calls) + 1] EXCEPT
                    !.op = "fetchUsers", !.stage = "sent"]
             /\ calls'[Len(calls) + 2] = [calls'[Len(calls) + 2] EXCEPT
                    !.op = "fetchBlogs", !.stage = "sent"]
             /\ FetchAllCalls(calls') = FetchAllCalls(calls) \cup {Len(calls) + 1, Len(calls) + 2}
             /\ loading'
        /\ \A c \in FetchAllCalls(calls) : (Resolves(c) /\ Mounted) =>
             /\ loading' = IF Live(Partner(c)) THEN loading ELSE FALSE
             /\ calls[c].outcome = "ok" =>
                   IF calls[c].op = "fetchUsers"
                   THEN users' = calls[c].rows /\ blogs' = blogs
                   ELSE blogs' = calls[c].rows /\ users' = users
             /\ calls[c].outcome # "ok" => users' = users /\ blogs' = blogs
        /\ (phase' = "mounted" /\ \E c \in FetchAllCalls(calls') : calls'[c].stage # "done")
             => loading'
        /\ (phase' = "mounted" /\ \A c \in FetchAllCalls(calls') : calls'[c].stage = "done")
             => ~loading'
      ]_vars

\* C14 witness: a refresh whose fetch of accounts failed and whose fetch of
\* posts succeeded has settled; the posts are that response, the accounts
\* are those of the mount and the page is no longer loading.
C14_Witness ==
    /\ Mounted
    /\ ~loading
    /\ Len(calls) = 4
    /\ calls[3].by = "fetchData" /\ calls[3].stage = "done" /\ calls[3].outcome # "ok"
    /\ calls[4].by = "fetchData" /\ calls[4].stage = "done" /\ calls[4].outcome = "ok"
    /\ usersFrom = 1 /\ blogsFrom = 4
    /\ users # <<>> /\ blogs # <<>>

\* The calls the change listeners have sent.
ListenerCalls(log) == {c \in DOMAIN log : log[c].by = "listener"}

\* C15: the change listeners.  The delivery of an accounts notification
\* sends one fetch of accounts and nothing else, the delivery of a posts
\* notification one fetch of posts and nothing else; a listener sends a call
\* only on a delivery, and only while its channel is subscribed (removing
\* the channels drops the notifications not yet delivered).  Neither a
\* change on the backend nor a delivery writes to a cached list: the lists
\* change only when a call resolves.
C15_ListenerRefetches ==
    [][ /\ (events'.users < events.users /\ usersChannel' = "subscribed") =>
             /\ usersChannel = "subscribed"
             /\ events'.users = events.users - 1 /\ events'.blogs = events.blogs
             /\ Len(calls') = Len(calls) + 1
             /\ calls'[Len(calls')].op = "fetchUsers"
             /\ calls'[Len(calls')].by = "listener"
             /\ calls'[Len(calls')].stage = "sent"
        /\ (events'.blogs < events.blogs /\ blogsChannel' = "subscribed") =>
             /\ blogsChannel = "subscribed"
             /\ events'.blogs = events.blogs - 1 /\ events'.users = events.users
             /\ Len(calls') = Len(calls) + 1
             /\ calls'[Len(calls')].op = "fetchBlogs"
             /\ calls'[Len(calls')].by = "listener"
             /\ calls'[Len(calls')].stage = "sent"
        /\ ListenerCalls(calls') # ListenerCalls(calls) =>
             \/ events'.users < events.users /\ usersChannel' = "subscribed"
             \/ events'.blogs < events.blogs /\ blogsChannel' = "subscribed"
        /\ (users' # users \/ blogs' # blogs) => \E c \in DOMAIN calls : Resolves(c)
        /\ (srvProfiles' # srvProfiles \/ srvBlogs' # srvBlogs \/ events' # events) =>
             (users' = users /\ blogs' = blogs)
      ]_vars

\* C15 witness: another client changed the posts; the posts listener sent
\* the one fetch of the run that follows the mount, its response is the
\* cached list of posts and the accounts are still those of the mount.
C15_Witness ==
    /\ Mounted
    /\ blogsVer = 1 /\ profilesVer = 0
    /\ events = [users |-> 0, blogs |-> 0]
    /\ Len(calls) = 3
    /\ calls[3].op = "fetchBlogs" /\ calls[3].by = "listener" /\ calls[3].stage = "done"
    /\ blogsFrom = 3 /\ usersFrom = 1
    /\ blogs = OrderDesc(srvBlogs)

\* C16: whenever the dashboard is rendered, the displayed revenue figure is
\* 9 times the number of records of the cached list of accounts whose tier
\* is premium, whatever fetches, account edits, account deletes and account
\* creations came before.
C16_Revenue ==
    Rendered =>
        totalRevenue =
            9 * Cardinality({i \in DOMAIN users : users[i].subscription_tier = "premium"})

\* C16 witness: the rendered page after an account edit resolved with
\* success, caching one premium account next to a free one: the figure is 9
\* for two accounts.
C16_Witness ==
    /\ Rendered
    /\ \E c \in DOMAIN calls :
          calls[c].op = "updateUser" /\ calls[c].stage = "done" /\ calls[c].outcome = "ok"
    /\ Len(users) = 2
    /\ \E i \in DOMAIN users : users[i].subscription_tier = "premium"
    /\ \E i \in DOMAIN users : users[i].subscription_tier = "free"
    /\ totalRevenue = 9

\* The guard has run and did not admit the session.
Refused == phase = "unmounted" /\ adminSession = NoSession

\* C17: the guard turning a session away.  When the guard runs and the token
\* is absent, does not parse, or is older than 24 hours, the page redirects to
\* /admin without admitting the session, sending a call or opening a
\* listener, and local storage holds no token afterwards.  From then on no
\* call is ever sent, no listener is ever opened, the session is never
\* admitted and the page stays redirected.
C17_GuardRefuses ==
    [][ /\ ( /\ phase = "init" /\ phase' # "init"
              /\ \/ storage.kind = "absent"
                 \/ storage.kind = "garbage"
                 \/ storage.kind = "json" /\ now - storage.loginTime > SessionTTL ) =>
             /\ Refused'
             /\ route' = "/admin"
             /\ storage' = Absent
             /\ calls' = <<>>
             /\ usersChannel' = "none" /\ blogsChannel' = "none"
        /\ Refused =>
             /\ Refused'
             /\ route' = "/admin"
             /\ storage' = Absent
             /\ calls' = <<>>
             /\ usersChannel' = "none" /\ blogsChannel' = "none"
             /\ users' = <<>> /\ blogs' = <<>>
      ]_vars

\* C17 witness: the guard turned the session away and time has passed since:
\* the page is redirected, nothing is stored, no call was sent and no
\* listener is open.
C17_Witness ==
    /\ Refused
    /\ now = MaxTicks
    /\ route = "/admin"
    /\ storage = Absent
    /\ calls = <<>>
    /\ usersChannel = "none" /\ blogsChannel = "none"

====
